---- MODULE Spec2Model ----
(***************************************************************************)
(* A model of the ritsuko chat bot: the connection supervisor of           *)
(* src/src/bot.py (main, initialize_zulip_client), its message handler     *)
(* (handle_message, with handle_ai and parse_command of                    *)
(* src/src/commands.py) and the token-bucket rate limiter of               *)
(* src/src/rate_limiter.py.                                                *)
(*                                                                         *)
(* Time.  The code reads the wall clock only as differences                *)
(* (now - last_refill, and now - start_time compared with timeout), so     *)
(* the model keeps those differences, counted in ticks of 0.1 s (the       *)
(* polling interval of acquire), instead of the clock itself; the clock is *)
(* taken to be non-decreasing.  Tokens are counted in units of             *)
(* 1/(60*TicksPerSecond) of a token, so that one tick refills exactly      *)
(* requests_per_minute units and nothing is rounded.                       *)
(***************************************************************************)
EXTENDS Integers, Sequences, FiniteSets, TLC

VARIABLES
    \* ---- supervisor (bot.py main / initialize_zulip_client) ----
    pc,             \* position of main()
    ipc,            \* position inside initialize_zulip_client ("none" outside)
    attempt,        \* loop variable of initialize_zulip_client
    failure_count,  \* main's failure_count
    exit_status,    \* "running", "exit0", "exit1", "uncaught_KeyboardInterrupt"
    client,         \* global client: 0 is None, n > 0 the n-th handle created
    BOT_PROFILE,    \* global BOT_PROFILE: 0 is None, n the profile fetched with handle n
    loop_client,    \* handle call_on_each_message is running on (0: not running)
    handles,        \* number of handles created so far by a successful handshake
    sleep_for,      \* seconds of the time.sleep in progress (0: not sleeping)
    consec_errors,  \* history: the kinds of the receive-loop errors since the last
                    \* success (a handshake that succeeded or a message delivered)
    shutdown,       \* history: a KeyboardInterrupt was delivered
    loop_entered,   \* history: call_on_each_message was called at least once
    \* ---- rate limiter (rate_limiter.py) ----
    requests_per_minute,
    burst_size,
    tokens,         \* self.tokens, in token units
    since_refill,   \* time.time() - self.last_refill, in ticks (saturating)
    queue,          \* self.queue
    total_requests,
    total_queued,
    total_rejected,
    thr,            \* the calling threads: thr[c] is caller c's call of acquire
    last,           \* history: the call that returned last, and what it returned
    calls,          \* history: number of acquire/try_acquire calls started
    recording,      \* whether hist is kept in this run
    hist,           \* history: the try_acquire results and clock ticks, in order
    audit,          \* history, when audit.on: grants made, ticks elapsed, and the
                    \* values get_metrics returned since the last acquire/try_acquire
    \* ---- message handler (bot.py handle_message, commands.py handle_ai) ----
    hm,             \* the main thread inside handle_message
    ai              \* the state handle_ai shares with its timer thread

supvars == <<pc, ipc, attempt, failure_count, exit_status, client, BOT_PROFILE,
             loop_client, handles, sleep_for, consec_errors, shutdown, loop_entered>>
rlvars == <<requests_per_minute, burst_size, tokens, since_refill, queue,
            total_requests, total_queued, total_rejected, thr, last, calls, recording,
            hist, audit>>
botvars == <<hm, ai>>
vars == <<supvars, rlvars, botvars>>

Min(a, b) == IF a <= b THEN a ELSE b
Max(a, b) == IF a >= b THEN a ELSE b

(***************************************************************************)
(* Bounds of the model.                                                    *)
(***************************************************************************)
MaxHandles == 3
MaxErrors == 4
NumCallers == 2
MaxCalls == 3
MaxTimeout == 2
MaxBurst == 2
MaxHist == 8
MaxTicks == 4
MaxSeen == 2
MaxWords == 3
MaxMessages == 3

(***************************************************************************)
(* Program constants of bot.py.                                            *)
(***************************************************************************)
max_retries == 5
retry_delay == 10
max_consecutive_failures == 3
backoff_base == 5
backoff_cap == 60
recovery_delay == 10

(***************************************************************************)
(* Program constants of rate_limiter.py.  A tick is the 0.1 s of           *)
(* time.sleep(0.1); refill_rate is requests_per_minute / 60.0 per second.  *)
(***************************************************************************)
queue_max_size == 100
SecondsPerMinute == 60
TicksPerSecond == 10
GlobalRequestsPerMinute == 50
GlobalBurstSize == 10
UnitsPerToken == SecondsPerMinute * TicksPerSecond

(***************************************************************************)
(* Supervisor: initialize_zulip_client and main of bot.py.                 *)
(***************************************************************************)
SupInit ==
    /\ pc = "startup"
    /\ ipc = "attempt"
    /\ attempt = 1
    /\ failure_count = 0
    /\ exit_status = "running"
    /\ client = 0
    /\ BOT_PROFILE = 0
    /\ loop_client = 0
    /\ handles = 0
    /\ sleep_for = 0
    /\ consec_errors = <<>>
    /\ shutdown = FALSE
    /\ loop_entered = FALSE

InInitialize == pc \in {"startup", "reconnect", "reinit"}

\* min(5 * (2 ** (failure_count - 1)), 60)
Backoff(fc) == Min(backoff_base * (2 ^ (fc - 1)), backoff_cap)

\* One attempt of initialize_zulip_client succeeds: the client is created and
\* get_profile answers 'success'; the pair is returned and main assigns the globals.
\* Every call site of main then goes to the next iteration of the while loop.
InitializeSucceeds ==
    /\ exit_status = "running"
    /\ InInitialize
    /\ ipc = "attempt"
    /\ handles < MaxHandles
    /\ handles' = handles + 1
    /\ client' = handles + 1
    /\ BOT_PROFILE' = handles + 1
    /\ ipc' = "none"
    /\ pc' = "loop_top"
    /\ consec_errors' = <<>>
    /\ UNCHANGED <<attempt, failure_count, exit_status, loop_client, sleep_for,
                   shutdown, loop_entered>>
    /\ UNCHANGED <<rlvars, botvars>>

\* The failure of the call ended the process.
ReinitFailure_Exits == [pc |-> "exited", exit_status |-> "exit1"]

\* The failure of the call led to another sleep and another call.
ReinitFailure_SleepsAgain == [pc |-> "recover_sleep", exit_status |-> exit_status]

\* After a receive-loop error the call raises into `except Exception as reinit_error`,
\* which logs it; the except clause ends and the while loop iterates.
ReinitFailure == [pc |-> "loop_top", exit_status |-> exit_status]

\* One attempt fails (zulip.Client raises, get_profile raises or answers an error).
\* Before the last attempt the function sleeps retry_delay; on the last it re-raises:
\* main exits with status 1 at startup, and only logs the failure after a
\* receive-loop error.
AttemptFails(limit) ==
    /\ exit_status = "running"
    /\ InInitialize
    /\ ipc = "attempt"
    /\ IF attempt < limit
       THEN /\ ipc' = "sleep"
            /\ sleep_for' = retry_delay
            /\ UNCHANGED <<pc, exit_status>>
       ELSE /\ ipc' = "none"
            /\ sleep_for' = 0
            /\ IF pc = "startup"
               THEN pc' = "exited" /\ exit_status' = "exit1"
               ELSE pc' = ReinitFailure.pc /\ exit_status' = ReinitFailure.exit_status
    /\ UNCHANGED <<attempt, failure_count, client, BOT_PROFILE, loop_client, handles,
                   consec_errors, shutdown, loop_entered>>
    /\ UNCHANGED <<rlvars, botvars>>

\* The for loop ran past max_retries: it would sleep after the last attempt too.
InitializeAttemptFails_OneMore == AttemptFails(max_retries + 1)

InitializeAttemptFails == AttemptFails(max_retries)

\* time.sleep(retry_delay) returns and the for loop takes the next attempt.
InitializeSleepDone ==
    /\ exit_status = "running"
    /\ InInitialize
    /\ ipc = "sleep"
    /\ attempt' = attempt + 1
    /\ ipc' = "attempt"
    /\ sleep_for' = 0
    /\ UNCHANGED <<pc, failure_count, exit_status, client, BOT_PROFILE, loop_client,
                   handles, consec_errors, shutdown, loop_entered>>
    /\ UNCHANGED <<rlvars, botvars>>

\* Top of the while loop: failure_count = 0, then client.call_on_each_message.
LoopStart ==
    /\ exit_status = "running"
    /\ pc = "loop_top"
    /\ failure_count' = 0
    /\ pc' = "receiving"
    /\ loop_client' = client
    /\ loop_entered' = TRUE
    /\ UNCHANGED <<ipc, attempt, exit_status, client, BOT_PROFILE, handles, sleep_for,
                   consec_errors, shutdown>>
    /\ UNCHANGED <<rlvars, botvars>>

\* The receive loop delivers one message to handle_message, which returns.
RecvMessage ==
    /\ exit_status = "running"
    /\ pc = "receiving"
    /\ consec_errors' = <<>>
    /\ UNCHANGED <<pc, ipc, attempt, failure_count, exit_status, client, BOT_PROFILE,
                   loop_client, handles, sleep_for, shutdown, loop_entered>>
    /\ UNCHANGED <<rlvars, botvars>>

\* call_on_each_message returns without raising: the while loop iterates.
RecvReturns ==
    /\ exit_status = "running"
    /\ pc = "receiving"
    /\ pc' = "loop_top"
    /\ loop_client' = 0
    /\ UNCHANGED <<ipc, attempt, failure_count, exit_status, client, BOT_PROFILE,
                   handles, sleep_for, consec_errors, shutdown, loop_entered>>
    /\ UNCHANGED <<rlvars, botvars>>

\* The body of both except clauses up to the sleep: count, exit at the ceiling,
\* otherwise sleep `delay` seconds and go on to `next`.
HandleLoopError(kind, delay, next) ==
    /\ failure_count' = failure_count + 1
    /\ consec_errors' = Append(consec_errors, kind)
    /\ loop_client' = 0
    /\ IF failure_count + 1 >= max_consecutive_failures
       THEN pc' = "exited" /\ exit_status' = "exit1" /\ sleep_for' = 0
       ELSE pc' = next /\ UNCHANGED exit_status /\ sleep_for' = delay
    /\ UNCHANGED <<ipc, attempt, client, BOT_PROFILE, handles, shutdown, loop_entered>>
    /\ UNCHANGED <<rlvars, botvars>>

\* except ConnectionError
RecvConnectionError ==
    /\ exit_status = "running"
    /\ pc = "receiving"
    /\ Len(consec_errors) < MaxErrors
    /\ HandleLoopError("ConnectionError", Backoff(failure_count + 1), "backoff_sleep")

\* except Exception
RecvUnexpectedError ==
    /\ exit_status = "running"
    /\ pc = "receiving"
    /\ Len(consec_errors) < MaxErrors
    /\ HandleLoopError("Exception", recovery_delay, "recover_sleep")

\* The sleep of an except clause returns; initialize_zulip_client is called again.
SleepDone ==
    /\ exit_status = "running"
    /\ pc \in {"backoff_sleep", "recover_sleep"}
    /\ pc' = (IF pc = "backoff_sleep" THEN "reconnect" ELSE "reinit")
    /\ ipc' = "attempt"
    /\ attempt' = 1
    /\ sleep_for' = 0
    /\ UNCHANGED <<failure_count, exit_status, client, BOT_PROFILE, loop_client, handles,
                   consec_errors, shutdown, loop_entered>>
    /\ UNCHANGED <<rlvars, botvars>>

\* Where main's `except KeyboardInterrupt` applies: the try body only.  In an except
\* clause (its sleep, its call of initialize_zulip_client) and at startup nothing
\* catches it (initialize_zulip_client and main catch Exception, which
\* KeyboardInterrupt is not), so it leaves main uncaught.
InterruptCaught == pc \in {"loop_top", "receiving"}

KeyboardInterrupt ==
    /\ exit_status = "running"
    /\ shutdown' = TRUE
    /\ exit_status' = (IF InterruptCaught THEN "exit0" ELSE "uncaught_KeyboardInterrupt")
    /\ pc' = "exited"
    /\ ipc' = "none"
    /\ sleep_for' = 0
    /\ loop_client' = 0
    /\ UNCHANGED <<attempt, failure_count, client, BOT_PROFILE, handles, consec_errors,
                   loop_entered>>
    /\ UNCHANGED <<rlvars, botvars>>

SupNext ==
    \/ InitializeSucceeds
    \/ InitializeAttemptFails
    \/ InitializeSleepDone
    \/ LoopStart
    \/ RecvMessage
    \/ RecvReturns
    \/ RecvConnectionError
    \/ RecvUnexpectedError
    \/ SleepDone
    \/ KeyboardInterrupt

(***************************************************************************)
(* Message handler: handle_message of bot.py and handle_ai, parse_command  *)
(* and execute_command of commands.py.                                     *)
(*                                                                         *)
(* A message is a record of the fields handle_message reads.  content is   *)
(* the sequence of the words of message['content'] (what str.split gives); *)
(* mentioned is `bot_user_id in mentioned_user_ids`; display_recipient is  *)
(* the set of the participants' emails for a private message and the       *)
(* stream's name otherwise.  A key the dict does not have holds Absent.    *)
(*                                                                         *)
(* hm.pc is the position of the main thread: "idle", "command" (line 250), *)
(* inside handle_ai "ai_precheck" (line 104), "ai_acquire" (line 138),     *)
(* "ai_arm" (line 150), "ai_api" (line 205), "ai_cancel" (lines 208, 222), *)
(* then "reply" (line 278), "critical" (the handler of line 295), "done"   *)
(* (handle_message has returned) and "propagated" (it has raised).         *)
(* ai.timer is the timer thread: "none", "waiting" (in Timer.run's wait),  *)
(* "cancelled", "running" (notify_processing entered, line 157), "sending" *)
(* (line 175), "done".                                                     *)
(*                                                                         *)
(* hm.n counts the messages handle_message was called with; hm.outbox is   *)
(* every dict given to send_message, in order, each with the position of   *)
(* the main thread and the message being handled when it was given;        *)
(* hm.exception is what was raised in handle_message, if anything.         *)
(***************************************************************************)
ZULIP_EMAIL == "ritsuko@example.com"
People == {ZULIP_EMAIL, "alice@example.com", "mallory@example.com"}
authorized_users == {"alice@example.com"}

Absent == "<absent>"

MentionMarkers == {"@**Ritsuko**", "@_**Ritsuko**"}
Words == MentionMarkers \cup {"ai", "help", "hello"}

\* Every word of a message of the model, and what str.lower makes of it.
Vocabulary ==
    {"@**Ritsuko**", "@_**Ritsuko**", "@**ritsuko**", "@_**ritsuko**", "@**Bot**",
     "@**bot**", "@**Bot", "@**bot", "@bot", "ai", "help", "Help", "hello", "Me", "me",
     "node", "status", "echo", "world", "a<NUL>b"}

\* The character '\x00', which takes one place in a word.
NUL == "<NUL>"

\* The characters of a word.
Chars(w) ==
    CASE w = "@**Ritsuko**" -> <<"@", "*", "*", "R", "i", "t", "s", "u", "k", "o", "*", "*">>
      [] w = "@_**Ritsuko**" -> <<"@", "_", "*", "*", "R", "i", "t", "s", "u", "k", "o", "*", "*">>
      [] w = "@**ritsuko**" -> <<"@", "*", "*", "r", "i", "t", "s", "u", "k", "o", "*", "*">>
      [] w = "@_**ritsuko**" -> <<"@", "_", "*", "*", "r", "i", "t", "s", "u", "k", "o", "*", "*">>
      [] w = "@**Bot**" -> <<"@", "*", "*", "B", "o", "t", "*", "*">>
      [] w = "@**bot**" -> <<"@", "*", "*", "b", "o", "t", "*", "*">>
      [] w = "@**Bot" -> <<"@", "*", "*", "B", "o", "t">>
      [] w = "@**bot" -> <<"@", "*", "*", "b", "o", "t">>
      [] w = "@bot" -> <<"@", "b", "o", "t">>
      [] w = "ai" -> <<"a", "i">>
      [] w = "help" -> <<"h", "e", "l", "p">>
      [] w = "Help" -> <<"H", "e", "l", "p">>
      [] w = "hello" -> <<"h", "e", "l", "l", "o">>
      [] w = "Me" -> <<"M", "e">>
      [] w = "me" -> <<"m", "e">>
      [] w = "node" -> <<"n", "o", "d", "e">>
      [] w = "status" -> <<"s", "t", "a", "t", "u", "s">>
      [] w = "echo" -> <<"e", "c", "h", "o">>
      [] w = "world" -> <<"w", "o", "r", "l", "d">>
      [] w = "a<NUL>b" -> <<"a", NUL, "b">>

\* The word of given characters.
Word(cs) == CHOOSE w \in Vocabulary : Chars(w) = cs

DenialText == "I am not authorized to talk to you"
MissingFieldText == "I encountered an error processing your request. Missing required field"
FormatText == "I encountered an error with the command format"
TimeoutText == "Your request timed out"
ConnectionText == "I couldn't connect to an external service"
UnexpectedText == "An unexpected error occurred"
CriticalText == "I encountered a critical error processing your message"
ThrottleText == "too many requests"
NoCommandText == "No command specified"
UnknownText == "Unknown command"

NoMessage ==
    [sender_email |-> "", type |-> "none", mentioned |-> FALSE, content |-> <<>>,
     display_recipient |-> {}, subject |-> ""]

\* A dispatch of handle_ai: the message and the callback it was called with (n is
\* the number of the message), its local processing_notified and its timer.
NoDispatch ==
    [message |-> NoMessage, n |-> 0, callback |-> FALSE, processing_notified |-> FALSE,
     timer |-> "none", timer_left |-> 0, since_begin |-> 0, raised |-> FALSE]

\* threading.Timer(5.0, notify_processing), in ticks
TimerSeconds == 5
TimerTicks == TimerSeconds * TicksPerSecond

\* The main thread is inside handle_ai.
InHandleAi == hm.pc \in {"ai_precheck", "ai_acquire", "ai_arm", "ai_api", "ai_cancel"}

\* What a tick of the clock does to the dispatch: the timer's wait shortens, and the
\* time since handle_ai was entered grows while it has not returned (kept up to the
\* timer's interval, beyond which nothing depends on it).
AiTick ==
    [ai EXCEPT !.timer_left = IF ai.timer = "waiting" THEN Max(@ - 1, 0) ELSE @,
               !.since_begin = IF InHandleAi THEN Min(@ + 1, TimerTicks) ELSE @]

\* The exceptions raised in the model, by class, and the classes each is an instance
\* of (Python's hierarchy of built-in exceptions; json.JSONDecodeError is a
\* ValueError).
Kinds ==
    {"KeyError", "ValueError", "JSONDecodeError", "TimeoutError", "ConnectionError",
     "OSError", "RuntimeError"}

Bases(cls) ==
    CASE cls = "KeyError" -> {"KeyError", "LookupError", "Exception"}
      [] cls = "ValueError" -> {"ValueError", "Exception"}
      [] cls = "JSONDecodeError" -> {"JSONDecodeError", "ValueError", "Exception"}
      [] cls = "TimeoutError" -> {"TimeoutError", "OSError", "Exception"}
      [] cls = "ConnectionError" -> {"ConnectionError", "OSError", "Exception"}
      [] cls = "OSError" -> {"OSError", "Exception"}
      [] cls = "RuntimeError" -> {"RuntimeError", "Exception"}

\* `except cls` catches e
IsInstance(e, cls) == cls \in Bases(e.cls)

\* What a call does: it returns, or it raises an exception e, of which str(e) is e.msg.
Returns == [cls |-> "none", msg |-> ""]
Raisable == {[cls |-> k, msg |-> "failure"] : k \in Kinds}
MissingKey(key) == [cls |-> "KeyError", msg |-> key]

IdleHandler ==
    [pc |-> "idle", message |-> NoMessage, response |-> "", detail |-> "",
     outbox |-> <<>>, parsed |-> FALSE, command |-> "", args |-> <<>>,
     handler |-> "none", collaborators |-> {}, exception |-> Returns, n |-> 0]

HandlerInit ==
    /\ hm = IdleHandler
    /\ ai = NoDispatch

\* The handler of line 295 caught one class only.
OuterClause_ValueError == "ValueError"

\* `except Exception as e` (line 295)
OuterClause == "Exception"

\* Where the main thread goes when e is raised in the try of line 182, outside the
\* inner try blocks.
RaisedInHandler(e) == IF IsInstance(e, OuterClause) THEN "critical" ELSE "propagated"

\* A message from the bot itself was never recognised.
FromSelf_Never(m) == FALSE

\* message['sender_email'] == os.environ['ZULIP_EMAIL']
FromSelf(m) == m.sender_email = ZULIP_EMAIL

\* `marker in content`: some word of the content holds the marker.  A word of the
\* Vocabulary holds a marker exactly when it is that marker.
InContent(marker, content) == \E i \in 1..Len(content) : content[i] = marker

\* Only the numeric id was looked at.
bot_mentioned_IdOnly(m) == m.mentioned

\* bot_mentioned (lines 197-199)
bot_mentioned(m) ==
    \/ m.mentioned
    \/ InContent("@**Ritsuko**", m.content)
    \/ InContent("@_**Ritsuko**", m.content)

\* The bot was counted among the participants.
num_non_bot_users_All(m) == Cardinality(m.display_recipient)

\* len([r for r in display_recipient if r['email'] != os.environ['ZULIP_EMAIL']])
num_non_bot_users(m) == Cardinality(m.display_recipient \ {ZULIP_EMAIL})

\* Every conversation with somebody else in it was taken for a 1-on-1.
OneOnOne_OrMore(m) == num_non_bot_users(m) >= 1

\* The test reads `num_non_bot_users <= 1`.
OneOnOne_OrNone(m) == num_non_bot_users(m) <= 1

\* `if num_non_bot_users == 1`
OneOnOne(m) == num_non_bot_users(m) = 1

\* A mention was enough, whatever the type of the message.
should_respond_Mentioned(m) ==
    IF m.type = "private" THEN (OneOnOne(m) \/ bot_mentioned(m))
    ELSE bot_mentioned(m)

\* should_respond where lines 204-240 do not return before the authorization check.
should_respond(m) ==
    IF m.type = "stream" THEN bot_mentioned(m)
    ELSE IF m.type = "private" THEN (OneOnOne(m) \/ bot_mentioned(m))
    ELSE FALSE

\* Nobody was turned away.
Authorized_Anyone(m) == TRUE

\* message['sender_email'] in authorized_users
Authorized(m) == m.sender_email \in authorized_users

\* Nothing was lower-cased.
LowerChar_Kept(c) == c

\* str.lower, on the letters of the Vocabulary
LowerChar(c) ==
    CASE c = "R" -> "r"
      [] c = "B" -> "b"
      [] c = "H" -> "h"
      [] c = "M" -> "m"
      [] OTHER -> c

\* words[i].lower()
Lower(w) == Word([i \in 1..Len(Chars(w)) |-> LowerChar(Chars(w)[i])])

\* str.startswith and str.endswith
StartsWith(cs, prefix) ==
    /\ Len(cs) >= Len(prefix)
    /\ SubSeq(cs, 1, Len(prefix)) = prefix

EndsWith(cs, suffix) ==
    /\ Len(cs) >= Len(suffix)
    /\ SubSeq(cs, Len(cs) - Len(suffix) + 1, Len(cs)) = suffix

\* (words[0].startswith("@**") or words[0].startswith("@_**")) and words[0].endswith("**")
MentionShaped(w) ==
    /\ \/ StartsWith(Chars(w), <<"@", "*", "*">>)
       \/ StartsWith(Chars(w), <<"@", "_", "*", "*">>)
    /\ EndsWith(Chars(w), <<"*", "*">>)

Tail2(s) == IF Len(s) <= 2 THEN <<>> ELSE SubSeq(s, 3, Len(s))

\* parse_command (commands.py lines 36-66): None is "".
parse_command(m) ==
    LET words == m.content
    IN  IF words = <<>> THEN [command |-> "", args |-> <<>>]
        ELSE IF m.type = "stream"
        THEN IF Len(words) < 2 THEN [command |-> "", args |-> <<>>]
             ELSE [command |-> Lower(words[2]), args |-> Tail2(words)]
        ELSE IF MentionShaped(words[1])
        THEN IF Len(words) < 2 THEN [command |-> "", args |-> <<>>]
             ELSE [command |-> Lower(words[2]), args |-> Tail2(words)]
        ELSE [command |-> Lower(words[1]), args |-> Tail(words)]

\* What a handler of execute_command gives: the text it returns, the value
\* interpolated in it, and the collaborators it calls on the way.
Result(handler, text, detail, uses) ==
    [handler |-> handler, text |-> text, detail |-> detail, uses |-> uses]

\* The offending token was left out of the message.
handle_unknown_Unnamed(command) == Result("handle_unknown", UnknownText, "", {})

\* handle_unknown (commands.py lines 319-321)
handle_unknown(command) == Result("handle_unknown", UnknownText, command, {})

\* execute_command (commands.py lines 334-362), where its handler returns.  Its case
\* `ai` is not reached from handle_message, which takes the command `ai` itself
\* (line 256); parse_command gives execute_command the command it gave
\* handle_message.  The words of the Vocabulary are valid node names for
\* handle_nautobot.
execute_command(m) ==
    LET command == parse_command(m).command
        args == parse_command(m).args
    IN  IF command = "" THEN Result("none", NoCommandText, "", {})
        ELSE CASE command = "help" -> Result("handle_help", "help_text", "", {})
               [] command = "ai" ->
                    Result("handle_ai", "ai_text", "", {"rate_limiter", "anthropic"})
               [] command = "mcp" -> Result("none", "MCP command is not yet implemented", "", {})
               [] command = "node" ->
                    IF args = <<>> THEN Result("handle_node", "Usage: node", "", {})
                    ELSE Result("handle_node", "node_text", "", {"github"})
               [] command = "nautobot" ->
                    IF args = <<>> THEN Result("handle_nautobot", "Usage: nautobot", "", {})
                    ELSE Result("handle_nautobot", "nautobot_text", "", {"nautobot"})
               [] command \in {"cluster", "clusters"} ->
                    Result("handle_clusters", "clusters_text", "", {})
               [] command = "status" ->
                    Result("handle_status", "status_text", "", {"rate_limiter"})
               [] command = "version" -> Result("handle_version", "version_text", "", {})
               [] OTHER -> handle_unknown(command)

\* Whether the handler of the command runs code that is outside every try of its
\* own after it has called a collaborator: handle_node builds its text from
\* matchbox_data['metadata'] after its try (nodes.py), which raises KeyError when
\* the data has no such key; the other classes stand for whatever else the code
\* under a handler raises.
MayRaise(m) == "github" \in execute_command(m).uses

\* Every failure got the generic text.
ExceptChain_GenericOnly ==
    <<[cls |-> "Exception", text |-> UnexpectedText, described |-> TRUE]>>

\* The except clauses of lines 261-275, in order: the class caught, the text of the
\* response, and whether str(e) is interpolated in it.
ExceptChain ==
    <<[cls |-> "KeyError", text |-> MissingFieldText, described |-> TRUE],
      [cls |-> "ValueError", text |-> FormatText, described |-> TRUE],
      [cls |-> "TimeoutError", text |-> TimeoutText, described |-> FALSE],
      [cls |-> "ConnectionError", text |-> ConnectionText, described |-> FALSE],
      [cls |-> "Exception", text |-> UnexpectedText, described |-> TRUE]>>

\* The clauses that catch e; the first of them runs.
Catching(e) == {i \in 1..Len(ExceptChain) : IsInstance(e, ExceptChain[i].cls)}
FirstOf(S) == CHOOSE i \in S : \A j \in S : i <= j

\* client.send_message gives a success, gives another result, or raises; send_message
\* (lines 162-172) returns whether it was a success and raises nothing.
SendResults == {"success", "error", "raises"}
send_message(result) == result = "success"

\* The bot was left among the recipients.
Recipients_All(m) == m.display_recipient

\* [r['email'] for r in message['display_recipient'] if r['email'] != ZULIP_EMAIL]
Recipients(m) == m.display_recipient \ {ZULIP_EMAIL}

\* A dict given to send_message, with what came of it.
Outbound(n, type, to, subject, text, detail, result) ==
    [type |-> type, to |-> to, subject |-> subject, content |-> text,
     detail |-> detail, delivered |-> send_message(result), during |-> hm.pc,
     n |-> n]

\* The response of lines 279-291, to the conversation the message came from.
ReplyMessage(m, result) ==
    IF m.type = "private"
    THEN Outbound(hm.n, "private", Recipients(m), Absent, hm.response, hm.detail,
                  result)
    ELSE Outbound(hm.n, "stream", m.display_recipient, m.subject, hm.response,
                  hm.detail, result)

\* processing_msg of notify_processing (commands.py lines 160-173)
ProcessingMessage(m, result) ==
    IF m.type = "stream"
    THEN Outbound(ai.n, "stream", m.display_recipient, m.subject,
                  "Processing your request", "", result)
    ELSE Outbound(ai.n, "private", m.display_recipient \ {ZULIP_EMAIL}, Absent,
                  "Processing your request", "", result)

\* The notification of lines 299-312
CriticalMessage(m, result) ==
    IF m.type = "private"
    THEN Outbound(hm.n, "private", m.display_recipient \ {ZULIP_EMAIL}, Absent,
                  CriticalText, "", result)
    ELSE Outbound(hm.n, "stream", m.display_recipient, m.subject, CriticalText, "",
                  result)

\* handle_message up to the authorization check (lines 182-248): line 184 raises
\* KeyError for a message without sender_email; otherwise the message is ignored, or
\* refused with the denial as response, or goes on to its command.
Receive(m) ==
    /\ hm.pc = "idle"
    /\ hm' = IF m.sender_email = Absent
             THEN [hm EXCEPT !.pc = RaisedInHandler(MissingKey("sender_email")),
                             !.exception = MissingKey("sender_email"),
                             !.message = m, !.n = @ + 1]
             ELSE IF FromSelf(m) \/ ~should_respond(m)
             THEN [hm EXCEPT !.pc = "done", !.message = m, !.n = @ + 1]
             ELSE IF ~Authorized(m)
             THEN [hm EXCEPT !.pc = "reply", !.message = m, !.n = @ + 1,
                             !.response = DenialText]
             ELSE [hm EXCEPT !.pc = "command", !.message = m, !.n = @ + 1]
    /\ UNCHANGED <<ai, supvars, rlvars>>

\* Lines 250-275: parse_command, then handle_ai with send_message as its callback for
\* the command `ai`, execute_command otherwise (handle_status, which reads the rate
\* limiter, is StatusCommand below).  When the handler raises, the first except
\* clause that catches the exception gives the response.
RunCommand(outcome) ==
    /\ hm.pc = "command"
    /\ parse_command(hm.message).command # "status"
    /\ outcome # Returns => MayRaise(hm.message)
    /\ LET parsed == [hm EXCEPT !.parsed = TRUE,
                                !.command = parse_command(hm.message).command,
                                !.args = parse_command(hm.message).args,
                                !.exception = outcome]
           r == execute_command(hm.message)
       IN  IF parsed.command = "ai"
           THEN /\ hm' = [parsed EXCEPT !.pc = "ai_precheck", !.handler = "handle_ai"]
                /\ ai' = [NoDispatch EXCEPT !.message = hm.message, !.n = hm.n,
                                            !.callback = TRUE]
           ELSE /\ UNCHANGED ai
                /\ hm' = IF outcome = Returns
                         THEN [parsed EXCEPT !.pc = "reply", !.handler = r.handler,
                                             !.collaborators = r.uses,
                                             !.response = r.text, !.detail = r.detail]
                         ELSE IF Catching(outcome) = {}
                         THEN [parsed EXCEPT !.pc = RaisedInHandler(outcome),
                                             !.handler = r.handler,
                                             !.collaborators = r.uses]
                         ELSE LET clause == ExceptChain[FirstOf(Catching(outcome))]
                              IN  [parsed EXCEPT
                                      !.pc = "reply", !.handler = r.handler,
                                      !.collaborators = r.uses,
                                      !.response = clause.text,
                                      !.detail = IF clause.described THEN outcome.msg
                                                 ELSE ""]
    /\ UNCHANGED <<supvars, rlvars>>

\* " ".join(args), as characters
RECURSIVE Join(_)
Join(args) ==
    IF args = <<>> THEN <<>>
    ELSE IF Len(args) = 1 THEN Chars(args[1])
    ELSE Chars(args[1]) \o <<" ">> \o Join(Tail(args))

\* validate_ai_prompt (validation.py, lines 50-74)
max_prompt_chars == 16000
validate_ai_prompt(prompt) ==
    IF prompt = <<>>
    THEN [is_valid |-> FALSE, error_msg |-> "Prompt cannot be empty"]
    ELSE IF Len(prompt) > max_prompt_chars
    THEN [is_valid |-> FALSE, error_msg |-> "Prompt too long"]
    ELSE IF \E i \in 1..Len(prompt) : prompt[i] = NUL
    THEN [is_valid |-> FALSE, error_msg |-> "Prompt contains invalid null bytes"]
    ELSE [is_valid |-> TRUE, error_msg |-> ""]

\* The prompt that failed validation went on to the rate limiter all the same.
AfterInvalidPrompt_Acquires == "ai_acquire"

\* Lines 124-129: `return f"Invalid prompt: {error_msg}"`
AfterInvalidPrompt == "reply"

\* handle_ai, lines 104-135: it returns a text at once when the anthropic package or
\* the API key is missing (`ready` false), when there is no prompt, and when the
\* prompt fails validate_ai_prompt; otherwise it goes on to the rate limiter.
AiPrecheck(ready) ==
    /\ hm.pc = "ai_precheck"
    /\ hm' = IF ~ready THEN [hm EXCEPT !.pc = "reply", !.response = "AI not available"]
             ELSE IF hm.args = <<>>
             THEN [hm EXCEPT !.pc = "reply", !.response = "Usage"]
             ELSE IF ~validate_ai_prompt(Join(hm.args)).is_valid
             THEN [hm EXCEPT !.pc = AfterInvalidPrompt, !.response = "Invalid prompt",
                             !.detail = validate_ai_prompt(Join(hm.args)).error_msg]
             ELSE [hm EXCEPT !.pc = "ai_acquire",
                             !.collaborators = @ \cup {"rate_limiter"}]
    /\ UNCHANGED <<ai, supvars, rlvars>>

\* The refused request went on to the API all the same.
AfterRefusal_GoesOn == "ai_arm"

\* Lines 139-148: `return` of the throttling text
AfterRefusal == "reply"

\* Lines 152-180: processing_notified = False and, with a callback, the timer starts.
AiArmTimer ==
    /\ hm.pc = "ai_arm"
    /\ hm' = [hm EXCEPT !.pc = "ai_api"]
    /\ ai' = IF ai.callback
             THEN [ai EXCEPT !.processing_notified = FALSE, !.timer = "waiting",
                             !.timer_left = TimerTicks]
             ELSE [ai EXCEPT !.processing_notified = FALSE]
    /\ UNCHANGED <<supvars, rlvars>>

\* Lines 183-205: the call of the Claude API returns, or something in the try raises.
AiApiDone(raises) ==
    /\ hm.pc = "ai_api"
    /\ hm' = [hm EXCEPT !.pc = "ai_cancel", !.collaborators = @ \cup {"anthropic"}]
    /\ ai' = [ai EXCEPT !.raised = raises]
    /\ UNCHANGED <<supvars, rlvars>>

\* Lines 208-218 and 222-226: timer.cancel() sets the timer's event, which stops a
\* timer that is still waiting and no other; handle_ai returns its text.
AiCancel ==
    /\ hm.pc = "ai_cancel"
    /\ hm' = [hm EXCEPT !.pc = "reply",
                        !.response = IF ai.raised THEN "An error occurred" ELSE "ai_text"]
    /\ ai' = [ai EXCEPT !.timer = IF @ = "waiting" THEN "cancelled" ELSE @]
    /\ UNCHANGED <<supvars, rlvars>>

\* Only private conversations were answered.
ReplyTypes_PrivateOnly == {"private"}

\* `if message['type'] == 'private'` ... `elif message['type'] == 'stream'`
ReplyTypes == {"private", "stream"}

\* A failure of the send reached the handler of line 295.
AfterReply_Escapes(result) == IF result = "raises" THEN "critical" ELSE "done"

\* After the send of the reply: send_message raises nothing (lines 162-172) and
\* whatever else the try of line 278 raises is logged by the handler of line 292, so
\* handle_message returns.
AfterReply(result) == "done"

\* Lines 278-293: the response is given to send_message for the conversation the
\* message came from, and handle_message returns.
SendReply(result) ==
    /\ hm.pc = "reply"
    /\ hm' = [hm EXCEPT !.pc = AfterReply(result),
                        !.outbox = IF hm.message.type \in ReplyTypes
                                   THEN Append(@, ReplyMessage(hm.message, result))
                                   ELSE @]
    /\ UNCHANGED <<ai, supvars, rlvars>>

\* Lines 296-314: the handler of line 295 gives send_message its notification for a
\* private or a stream message, and handle_message returns.
CriticalSend(result) ==
    /\ hm.pc = "critical"
    /\ hm' = [hm EXCEPT !.pc = "done",
                        !.outbox = IF hm.message.type \in {"private", "stream"}
                                   THEN Append(@, CriticalMessage(hm.message, result))
                                   ELSE @]
    /\ UNCHANGED <<ai, supvars, rlvars>>

\* call_on_each_message calls handle_message again only after it has returned.
Finished_Early == hm.pc \in {"reply", "done"}
Finished == hm.pc = "done"

\* handle_message has returned and call_on_each_message goes on to the next event
\* (the loop entered at main, line 381): the locals of the call are gone.
NextMessage ==
    /\ Finished
    /\ hm' = [IdleHandler EXCEPT !.outbox = hm.outbox, !.n = hm.n]
    /\ UNCHANGED <<ai, supvars, rlvars>>

\* Timer.run: the wait of 5.0 s ends with the event still unset, and the thread calls
\* notify_processing.
TimerWakes ==
    /\ ai.timer = "waiting"
    /\ ai.timer_left = 0
    /\ ai' = [ai EXCEPT !.timer = "running"]
    /\ UNCHANGED <<hm, supvars, rlvars>>

\* The flag was never set.
NotifiedFlag_Forgotten == FALSE

\* processing_notified = True (line 159)
NotifiedFlag == TRUE

\* notify_processing, lines 157-173: the test of the flag and of the callback, the
\* flag, and the message built.
TimerNotify ==
    /\ ai.timer = "running"
    /\ ai' = IF ~ai.processing_notified /\ ai.callback
             THEN [ai EXCEPT !.processing_notified = NotifiedFlag, !.timer = "sending"]
             ELSE [ai EXCEPT !.timer = "done"]
    /\ UNCHANGED <<hm, supvars, rlvars>>

\* notify_processing, line 175: send_message_callback(processing_msg)
TimerSend(result) ==
    /\ ai.timer = "sending"
    /\ hm' = [hm EXCEPT !.outbox = Append(@, ProcessingMessage(ai.message, result))]
    /\ ai' = [ai EXCEPT !.timer = "done"]
    /\ UNCHANGED <<supvars, rlvars>>

(***************************************************************************)
(* Rate limiter: class RateLimiter of rate_limiter.py.                     *)
(*                                                                         *)
(* A thread in acquire is at "start" (start_time read, line 78), "loop"    *)
(* (top of the while loop, line 104) or "sleep" (time.sleep(0.1), line     *)
(* 112).  remaining is timeout - (time.time() - start_time), kept at 0     *)
(* once the timeout has elapsed; nap is what is left of the sleep.  Each   *)
(* `with self.lock` block is one step.                                     *)
(***************************************************************************)
IdleThread == [pc |-> "idle", remaining |-> 0, nap |-> 0]

NoCall == [caller |-> 0, op |-> "none", result |-> FALSE]

\* RateLimiter.__init__(requests_per_minute, burst_size), with `callers` the threads
\* that will call it.
RLInitWith(rpm, burst, callers, rec) ==
    /\ requests_per_minute = rpm
    /\ burst_size = burst
    /\ tokens = burst * UnitsPerToken
    /\ since_refill = 0
    /\ queue = <<>>
    /\ total_requests = 0
    /\ total_queued = 0
    /\ total_rejected = 0
    /\ thr = [c \in callers |-> IdleThread]
    /\ last = NoCall
    /\ calls = 0
    /\ recording = rec
    /\ hist = <<>>

Callers == DOMAIN thr

\* self.max_tokens
max_tokens == burst_size * UnitsPerToken

\* The least elapsed time after which a refill fills the bucket whatever it held:
\* a longer elapsed time refills to the same max_tokens.
SatTicks == (max_tokens + requests_per_minute - 1) \div requests_per_minute

\* The refill forgot the cap of max_tokens.
Refilled_Uncapped == tokens + since_refill * requests_per_minute

\* The refill added whole tokens only, and still moved last_refill to now.
Refilled_WholeTokens ==
    Min(max_tokens,
        tokens + ((since_refill * requests_per_minute) \div UnitsPerToken) * UnitsPerToken)

\* _refill_tokens: min(self.max_tokens, self.tokens + elapsed * self.refill_rate)
Refilled == Min(max_tokens, tokens + since_refill * requests_per_minute)

\* The test reads `self.tokens > 1.0`.
Granted_Strict == Refilled > UnitsPerToken

\* `if self.tokens >= 1.0`, after _refill_tokens
Granted == Refilled >= UnitsPerToken

\* The grant forgot `self.tokens -= 1.0`.
AfterCheck_KeepsToken == Refilled

\* A grant took half a token: the same token served two callers.
AfterCheck_HalfToken == IF Granted THEN Refilled - UnitsPerToken \div 2 ELSE Refilled

\* self.tokens after _refill_tokens and the `if self.tokens >= 1.0: self.tokens -= 1.0`
\* of acquire and try_acquire.
AfterCheck == IF Granted THEN Refilled - UnitsPerToken ELSE Refilled

\* Callers queued in acquire: past the admission check and not yet returned.
Waiting == {c \in Callers : thr[c].pc \in {"loop", "sleep"}}

\* The wait of acquire was inside its `with self.lock` block.
HoldsLock_WhileWaiting(c) == thr[c].pc \in {"loop", "sleep"}

\* Thread c is inside a `with self.lock` block.  Every such block (lines 80-100,
\* 114-119, 128-136, 150-160, 164-168) runs from its entry to its exit without a
\* blocking call and is one step here: the while loop's timeout test and
\* time.sleep(0.1) (lines 103-112) are outside the blocks, so in no state does a
\* thread hold the lock.
HoldsLock(c) == FALSE

\* self.lock can be taken by thread c (0: a thread that is not a caller of acquire).
LockFree(c) == \A d \in Callers \ {c} : ~HoldsLock(d)

Returned(c, o, res) == [caller |-> c, op |-> o, result |-> res]

Record(e) == IF recording THEN Append(hist, e) ELSE hist

AuditOff == [on |-> FALSE, granted |-> 0, elapsed |-> 0, seen |-> <<>>]
AuditOn == [on |-> TRUE, granted |-> 0, elapsed |-> 0, seen |-> <<>>]

\* The audit after a refill-check-decrement step of acquire or try_acquire.
AuditCheck(granted) ==
    IF audit.on
    THEN [audit EXCEPT !.granted = IF granted THEN @ + 1 ELSE @, !.seen = <<>>]
    ELSE audit

\* round(self.tokens, 2) of get_metrics, in hundredths of a token: the nearest
\* hundredth, a tie going to the even one.
RoundDigits == 2
HundredthsPerToken == 10 ^ RoundDigits
Round2(units) ==
    LET twice == 2 * units * HundredthsPerToken
        q == twice \div (2 * UnitsPerToken)
        r == twice % (2 * UnitsPerToken)
    IN  IF r < UnitsPerToken THEN q
        ELSE IF r > UnitsPerToken THEN q + 1
        ELSE IF q % 2 = 0 THEN q ELSE q + 1

\* acquire, line 78: start_time = time.time()
AcquireCall(c, t) ==
    /\ thr[c].pc = "idle"
    /\ calls' = calls + 1
    /\ thr' = [thr EXCEPT ![c] = [pc |-> "start", remaining |-> t, nap |-> 0]]
    /\ UNCHANGED <<requests_per_minute, burst_size, tokens, since_refill, queue,
                   total_requests, total_queued, total_rejected, last, recording, hist,
                   audit>>
    /\ UNCHANGED <<supvars, botvars>>

\* The call that has to wait was not counted.
Queued_NotCounted == total_queued

\* Line 99, reached when the first check found no token: self.total_queued += 1
Queued == total_queued + 1

\* acquire, the first `with self.lock` block (lines 80-100).
AcquireEnter(c) ==
    /\ thr[c].pc = "start"
    /\ LockFree(c)
    /\ IF Len(queue) >= queue_max_size
       THEN /\ total_rejected' = total_rejected + 1
            /\ thr' = [thr EXCEPT ![c] = IdleThread]
            /\ last' = Returned(c, "acquire", FALSE)
            /\ UNCHANGED <<tokens, since_refill, total_requests, total_queued, audit>>
       ELSE /\ tokens' = AfterCheck
            /\ since_refill' = 0
            /\ audit' = AuditCheck(Granted)
            /\ IF Granted
               THEN /\ total_requests' = total_requests + 1
                    /\ thr' = [thr EXCEPT ![c] = IdleThread]
                    /\ last' = Returned(c, "acquire", TRUE)
                    /\ UNCHANGED total_queued
               ELSE /\ total_queued' = Queued
                    /\ thr' = [thr EXCEPT ![c].pc = "loop"]
                    /\ UNCHANGED <<total_requests, last>>
            /\ UNCHANGED total_rejected
    /\ UNCHANGED <<requests_per_minute, burst_size, queue, calls, recording, hist>>
    /\ UNCHANGED <<supvars, botvars>>

\* The timeout test gave up one tick before the deadline.
TimedOut_Early(c) == thr[c].remaining <= 1

\* `elapsed >= timeout`, with elapsed = time.time() - start_time
TimedOut(c) == thr[c].remaining = 0

\* acquire, the top of the while loop (lines 104-112): give up once the timeout has
\* elapsed, otherwise time.sleep(0.1).
AcquireLoopCheck(c) ==
    /\ thr[c].pc = "loop"
    /\ IF TimedOut(c)
       THEN /\ thr' = [thr EXCEPT ![c] = IdleThread]
            /\ last' = Returned(c, "acquire", FALSE)
       ELSE /\ thr' = [thr EXCEPT ![c].pc = "sleep", ![c].nap = 1]
            /\ UNCHANGED last
    /\ UNCHANGED <<requests_per_minute, burst_size, tokens, since_refill, queue,
                   total_requests, total_queued, total_rejected, calls, recording, hist,
                   audit>>
    /\ UNCHANGED <<supvars, botvars>>

\* acquire, after the sleep: the second `with self.lock` block (lines 114-119).
AcquirePoll(c) ==
    /\ thr[c].pc = "sleep"
    /\ thr[c].nap = 0
    /\ LockFree(c)
    /\ tokens' = AfterCheck
    /\ since_refill' = 0
    /\ audit' = AuditCheck(Granted)
    /\ IF Granted
       THEN /\ total_requests' = total_requests + 1
            /\ thr' = [thr EXCEPT ![c] = IdleThread]
            /\ last' = Returned(c, "acquire", TRUE)
       ELSE /\ thr' = [thr EXCEPT ![c].pc = "loop"]
            /\ UNCHANGED <<total_requests, last>>
    /\ UNCHANGED <<requests_per_minute, burst_size, queue, total_queued, total_rejected,
                   calls, recording, hist>>
    /\ UNCHANGED <<supvars, botvars>>

\* try_acquire (lines 128-136)
TryAcquire(c) ==
    /\ thr[c].pc = "idle"
    /\ LockFree(c)
    /\ calls' = calls + 1
    /\ tokens' = AfterCheck
    /\ since_refill' = 0
    /\ total_requests' = (IF Granted THEN total_requests + 1 ELSE total_requests)
    /\ last' = Returned(c, "try_acquire", Granted)
    /\ hist' = Record(IF Granted THEN "T" ELSE "F")
    /\ audit' = AuditCheck(Granted)
    /\ UNCHANGED <<requests_per_minute, burst_size, queue, total_queued, total_rejected,
                   thr, recording>>
    /\ UNCHANGED <<supvars, botvars>>

\* get_metrics consumed a token as it read the bucket.
MetricsTokens_Takes == AfterCheck

\* self.tokens after the _refill_tokens of get_metrics
MetricsTokens == Refilled

\* get_metrics (lines 150-160): refills under the lock and reads; available_tokens is
\* round(self.tokens, 2).
GetMetrics ==
    /\ LockFree(0)
    /\ tokens' = MetricsTokens
    /\ since_refill' = 0
    /\ audit' = IF audit.on
                THEN [audit EXCEPT !.seen = Append(@, Round2(MetricsTokens))]
                ELSE audit
    /\ UNCHANGED <<requests_per_minute, burst_size, queue, total_requests, total_queued,
                   total_rejected, thr, last, calls, recording, hist>>
    /\ UNCHANGED <<supvars, botvars>>

\* reset_metrics (lines 164-167)
ResetMetrics ==
    /\ LockFree(0)
    /\ total_requests' = 0
    /\ total_queued' = 0
    /\ total_rejected' = 0
    /\ UNCHANGED <<requests_per_minute, burst_size, tokens, since_refill, queue, thr,
                   last, calls, recording, hist, audit>>
    /\ UNCHANGED <<supvars, botvars>>

\* 0.1 s of wall-clock time passes: every difference the code will compute grows by
\* one tick, and a thread in time.sleep(0.1) has slept its time.
Tick ==
    /\ since_refill' = Min(since_refill + 1, SatTicks)
    /\ thr' = [c \in Callers |->
                 IF thr[c].pc = "idle" THEN thr[c]
                 ELSE [thr[c] EXCEPT !.remaining = Max(thr[c].remaining - 1, 0),
                                     !.nap = Max(thr[c].nap - 1, 0)]]
    /\ hist' = Record("t")
    /\ audit' = IF audit.on THEN [audit EXCEPT !.elapsed = @ + 1] ELSE audit
    /\ ai' = AiTick
    /\ UNCHANGED <<requests_per_minute, burst_size, tokens, queue, total_requests,
                   total_queued, total_rejected, last, calls, recording>>
    /\ UNCHANGED <<supvars, hm>>

(***************************************************************************)
(* Specifications.                                                         *)
(***************************************************************************)
\* The limiter the bot shares: claude_rate_limiter = RateLimiter(50, 10).
GlobalLimiterInit ==
    /\ RLInitWith(GlobalRequestsPerMinute, GlobalBurstSize, {}, FALSE)
    /\ audit = AuditOff

SupSpecInit ==
    /\ SupInit
    /\ HandlerInit
    /\ GlobalLimiterInit

\* The supervisor.
SupSpec == SupSpecInit /\ [][SupNext]_vars

\* The supervisor where every call terminates: time.sleep returns (in main and in
\* initialize_zulip_client), an attempt to connect ends by succeeding or by failing,
\* and the while loop goes from its top into the receive loop.  Nothing is assumed
\* of the receive loop itself, which blocks for as long as it likes.
SupFairInit == SupSpecInit

SupFairSpec ==
    /\ SupFairInit
    /\ [][SupNext]_vars
    /\ WF_vars(SleepDone)
    /\ WF_vars(InitializeSleepDone)
    /\ WF_vars(InitializeSucceeds \/ InitializeAttemptFails)
    /\ WF_vars(LoopStart)

\* The constructor's arguments, chosen so that a token takes a whole number of
\* ticks (300/min: 2 ticks) or not (400/min: 1.5 ticks).
Rates == {300, 400}
Timeouts == 0..MaxTimeout

RLInit ==
    /\ SupInit
    /\ HandlerInit
    /\ audit = AuditOff
    /\ \E rpm \in Rates, burst \in 1..MaxBurst :
          RLInitWith(rpm, burst, 1..NumCallers, FALSE)

RLNext ==
    \/ \E c \in Callers, t \in Timeouts : calls < MaxCalls /\ AcquireCall(c, t)
    \/ \E c \in Callers : AcquireEnter(c)
    \/ \E c \in Callers : AcquireLoopCheck(c)
    \/ \E c \in Callers : AcquirePoll(c)
    \/ \E c \in Callers : calls < MaxCalls /\ TryAcquire(c)
    \/ GetMetrics
    \/ ResetMetrics
    \/ Tick

\* The rate limiter used by NumCallers threads, which start MaxCalls calls in all.
RLSpec == RLInit /\ [][RLNext]_vars

\* The threads that compete for tokens, under the rate at which a token takes one
\* tick and a half.
RLFairInit ==
    /\ SupInit
    /\ HandlerInit
    /\ audit = AuditOff
    /\ \E burst \in 1..MaxBurst : RLInitWith(400, burst, 1..NumCallers, FALSE)

\* Idle threads are interchangeable: the next call is made by the first of them.
FirstIdle(c) == \A d \in Callers : d < c => thr[d].pc # "idle"

\* The calls that take tokens (acquire and try_acquire) and the clock.
RLFairNext ==
    \/ \E c \in Callers, t \in Timeouts :
          calls < MaxCalls /\ FirstIdle(c) /\ AcquireCall(c, t)
    \/ \E c \in Callers : AcquireEnter(c)
    \/ \E c \in Callers : AcquireLoopCheck(c)
    \/ \E c \in Callers : AcquirePoll(c)
    \/ \E c \in Callers : calls < MaxCalls /\ FirstIdle(c) /\ TryAcquire(c)
    \/ Tick

\* With what the scheduler and the clock guarantee: time passes, and a thread inside
\* acquire is eventually run.
RLFairSpec ==
    /\ RLFairInit
    /\ [][RLFairNext]_vars
    /\ WF_vars(Tick)
    /\ \A c \in 1..NumCallers :
          WF_vars(AcquireEnter(c) \/ AcquireLoopCheck(c) \/ AcquirePoll(c))

\* One thread that only calls try_acquire while time passes, its results kept in hist.
TryInit ==
    /\ SupInit
    /\ HandlerInit
    /\ audit = AuditOff
    /\ \E rpm \in Rates, burst \in 1..MaxBurst : RLInitWith(rpm, burst, {1}, TRUE)

TryNext ==
    \/ Len(hist) < MaxHist /\ TryAcquire(1)
    \/ Len(hist) < MaxHist /\ Tick

TrySpec == TryInit /\ [][TryNext]_vars

\* The shared limiter under a crowd: more threads than burst_size + queue_max_size
\* call acquire(timeout=30.0) one after the other within the same 0.1 s.
DefaultTimeout == 30 * TicksPerSecond
Crowd == 1..(GlobalBurstSize + queue_max_size + 1)

CrowdInit ==
    /\ SupInit
    /\ HandlerInit
    /\ audit = AuditOff
    /\ RLInitWith(GlobalRequestsPerMinute, GlobalBurstSize, Crowd, FALSE)

CrowdNext ==
    \/ \E c \in Callers : /\ calls = c - 1
                          /\ \A d \in Callers : thr[d].pc # "start"
                          /\ AcquireCall(c, DefaultTimeout)
    \/ \E c \in Callers : AcquireEnter(c)

CrowdSpec == CrowdInit /\ [][CrowdNext]_vars

\* Threads calling acquire and try_acquire while MaxTicks ticks pass, the grants and
\* the ticks counted in audit.
GrantInit ==
    /\ SupInit
    /\ HandlerInit
    /\ audit = AuditOn
    /\ \E rpm \in Rates, burst \in 1..MaxBurst :
          RLInitWith(rpm, burst, 1..NumCallers, FALSE)

GrantNext ==
    \/ \E c \in Callers, t \in Timeouts :
          calls < MaxCalls /\ FirstIdle(c) /\ AcquireCall(c, t)
    \/ \E c \in Callers : AcquireEnter(c)
    \/ \E c \in Callers : AcquireLoopCheck(c)
    \/ \E c \in Callers : AcquirePoll(c)
    \/ \E c \in Callers : calls < MaxCalls /\ FirstIdle(c) /\ TryAcquire(c)
    \/ audit.elapsed < MaxTicks /\ Tick

GrantSpec == GrantInit /\ [][GrantNext]_vars

\* One thread that reads the metrics, at most MaxSeen times between two of its calls
\* of acquire or try_acquire, while MaxTicks ticks pass.
MetricsInit ==
    /\ SupInit
    /\ HandlerInit
    /\ audit = AuditOn
    /\ \E rpm \in Rates, burst \in 1..MaxBurst : RLInitWith(rpm, burst, {1}, FALSE)

MetricsNext ==
    \/ \E t \in Timeouts : calls < MaxCalls /\ AcquireCall(1, t)
    \/ AcquireEnter(1)
    \/ AcquireLoopCheck(1)
    \/ AcquirePoll(1)
    \/ calls < MaxCalls /\ TryAcquire(1)
    \/ Len(audit.seen) < MaxSeen /\ GetMetrics
    \/ ResetMetrics
    \/ audit.elapsed < MaxTicks /\ Tick

MetricsSpec == MetricsInit /\ [][MetricsNext]_vars

\* The supervisor while call_on_each_message runs handle_message: after the first
\* handshake has succeeded and the receive loop was entered.
ReceivingInit ==
    /\ pc = "receiving"
    /\ ipc = "none"
    /\ attempt = 1
    /\ failure_count = 0
    /\ exit_status = "running"
    /\ client = 1
    /\ BOT_PROFILE = 1
    /\ loop_client = 1
    /\ handles = 1
    /\ sleep_for = 0
    /\ consec_errors = <<>>
    /\ shutdown = FALSE
    /\ loop_entered = TRUE

\* The messages delivered: every sender, mention and content of at most MaxWords
\* words, on a stream, in a private conversation of any participants, or of a type
\* that is neither.
Contents == UNION {[1..n -> Words] : n \in 0..MaxWords}

StreamMessages ==
    {[sender_email |-> s, type |-> "stream", mentioned |-> b, content |-> c,
      display_recipient |-> "ops", subject |-> "deploys"] :
        s \in People, b \in BOOLEAN, c \in Contents}

PrivateMessages ==
    {[sender_email |-> s, type |-> "private", mentioned |-> b, content |-> c,
      display_recipient |-> r, subject |-> ""] :
        s \in People, b \in BOOLEAN, c \in Contents, r \in SUBSET People}

OtherMessages ==
    {[sender_email |-> s, type |-> "unknown", mentioned |-> b, content |-> c,
      display_recipient |-> "ops", subject |-> ""] :
        s \in People, b \in BOOLEAN, c \in Contents}

\* Messages of an authorized sender that are answered, in a 1-on-1 conversation and
\* on a stream with the bot mentioned by its id: every content of at most MaxWords
\* words with marker-shaped and other first words and upper-case letters, and the
\* commands `node`, `status` and `echo`.
ParseWords == {"@**Bot**", "@**Bot", "@bot", "Help", "Me"}
ParseContents == UNION {[1..n -> ParseWords] : n \in 0..MaxWords}

CommandContents ==
    {<<"node">>, <<"node", "hello">>, <<"status">>, <<"echo", "hello", "world">>,
     <<"ai", "a<NUL>b">>}

AnsweredPrivateMessages ==
    {[sender_email |-> "alice@example.com", type |-> "private", mentioned |-> FALSE,
      content |-> c, display_recipient |-> {ZULIP_EMAIL, "alice@example.com"},
      subject |-> ""] : c \in ParseContents \cup CommandContents}

AnsweredStreamMessages ==
    {[sender_email |-> "alice@example.com", type |-> "stream", mentioned |-> TRUE,
      content |-> c, display_recipient |-> "ops", subject |-> "deploys"] :
        c \in ParseContents \cup {<<"@**Ritsuko**">> \o d : d \in CommandContents}}

\* Messages without the key sender_email, of at most one word.
ShortContents == {c \in Contents : Len(c) <= 1}

MalformedPrivateMessages ==
    {[sender_email |-> Absent, type |-> "private", mentioned |-> b, content |-> c,
      display_recipient |-> r, subject |-> ""] :
        b \in BOOLEAN, c \in ShortContents, r \in SUBSET People}

MalformedStreamMessages ==
    {[sender_email |-> Absent, type |-> "stream", mentioned |-> b, content |-> c,
      display_recipient |-> "ops", subject |-> "deploys"] :
        b \in BOOLEAN, c \in ShortContents}

MalformedOtherMessages ==
    {[sender_email |-> Absent, type |-> "unknown", mentioned |-> b, content |-> c,
      display_recipient |-> "ops", subject |-> ""] :
        b \in BOOLEAN, c \in ShortContents}

\* handle_ai calls claude_rate_limiter.acquire(timeout=30.0) (line 138) on the main
\* thread, which is caller 1 of the limiter.
AiAcquireCall ==
    /\ hm.pc = "ai_acquire"
    /\ last.op = "none"
    /\ AcquireCall(1, DefaultTimeout)

\* Line 138: claude_rate_limiter.acquire(timeout=30.0) has returned to handle_ai,
\* which goes on when it was granted and returns the throttling text when not.
AiAcquireReturns ==
    /\ hm.pc = "ai_acquire"
    /\ last.op = "acquire"
    /\ hm' = IF last.result THEN [hm EXCEPT !.pc = "ai_arm"]
             ELSE [hm EXCEPT !.pc = AfterRefusal, !.response = ThrottleText]
    /\ last' = NoCall
    /\ UNCHANGED <<requests_per_minute, burst_size, tokens, since_refill, queue,
                   total_requests, total_queued, total_rejected, thr, calls, recording,
                   hist, audit>>
    /\ UNCHANGED <<ai, supvars>>

\* Lines 250-259 for the command `status`: execute_command calls handle_status, which
\* calls claude_rate_limiter.get_metrics() (commands.py line 232).
StatusCommand ==
    /\ hm.pc = "command"
    /\ parse_command(hm.message).command = "status"
    /\ LET r == execute_command(hm.message)
       IN  hm' = [hm EXCEPT !.pc = "reply", !.parsed = TRUE,
                            !.command = parse_command(hm.message).command,
                            !.args = parse_command(hm.message).args,
                            !.handler = r.handler, !.collaborators = r.uses,
                            !.response = r.text, !.detail = r.detail]
    /\ tokens' = MetricsTokens
    /\ since_refill' = 0
    /\ audit' = IF audit.on
                THEN [audit EXCEPT !.seen = Append(@, Round2(MetricsTokens))]
                ELSE audit
    /\ UNCHANGED <<requests_per_minute, burst_size, queue, total_requests, total_queued,
                   total_rejected, thr, last, calls, recording, hist>>
    /\ UNCHANGED <<ai, supvars>>

HmInit ==
    /\ ReceivingInit
    /\ HandlerInit
    /\ audit = AuditOff
    /\ RLInitWith(GlobalRequestsPerMinute, GlobalBurstSize, {1}, FALSE)

\* handle_message on one message, with the shared limiter full and every call it
\* makes returning before the clock moves.
HmNext ==
    \/ hm.pc = "idle" /\ \E m \in StreamMessages \cup AnsweredStreamMessages : Receive(m)
    \/ hm.pc = "idle" /\ \E m \in PrivateMessages \cup AnsweredPrivateMessages : Receive(m)
    \/ hm.pc = "idle" /\ \E m \in OtherMessages : Receive(m)
    \/ hm.pc = "idle" /\ \E m \in MalformedPrivateMessages : Receive(m)
    \/ hm.pc = "idle" /\ \E m \in MalformedStreamMessages \cup MalformedOtherMessages :
                             Receive(m)
    \/ \E outcome \in {Returns} \cup Raisable : RunCommand(outcome)
    \/ StatusCommand
    \/ \E ready \in BOOLEAN : AiPrecheck(ready)
    \/ AiAcquireCall
    \/ AcquireEnter(1)
    \/ AiAcquireReturns
    \/ AiArmTimer
    \/ \E raises \in BOOLEAN : AiApiDone(raises)
    \/ AiCancel
    \/ \E result \in SendResults : SendReply(result)
    \/ \E result \in SendResults : CriticalSend(result)

HmSpec == HmInit /\ [][HmNext]_vars

\* The shared limiter right after burst_size requests were granted with no time
\* between them: the bucket is empty.
RLAfterBurst ==
    /\ requests_per_minute = GlobalRequestsPerMinute
    /\ burst_size = GlobalBurstSize
    /\ tokens = 0
    /\ since_refill = 0
    /\ queue = <<>>
    /\ total_requests = GlobalBurstSize
    /\ total_queued = 0
    /\ total_rejected = 0
    /\ thr = [c \in {1} |-> IdleThread]
    /\ last = NoCall
    /\ calls = 0
    /\ recording = FALSE
    /\ hist = <<>>

\* An authorized sender asks for the AI, in a 1-on-1 conversation or on a stream.
AiMessages ==
    {[sender_email |-> "alice@example.com", type |-> "private", mentioned |-> FALSE,
      content |-> <<"ai", "hello">>,
      display_recipient |-> {ZULIP_EMAIL, "alice@example.com"}, subject |-> ""],
     [sender_email |-> "alice@example.com", type |-> "stream", mentioned |-> TRUE,
      content |-> <<"@**Ritsuko**", "ai", "hello">>,
      display_recipient |-> "ops", subject |-> "deploys"]}

\* An authorized sender asks for the AI in a group conversation, mentioning the bot.
AiGroupMessages ==
    {[sender_email |-> "alice@example.com", type |-> "private", mentioned |-> b,
      content |-> <<"@_**Ritsuko**", "ai", "hello">>,
      display_recipient |-> People, subject |-> ""] : b \in BOOLEAN}

\* A sender who is not authorized writes at most one word, in a 1-on-1 conversation
\* and on a stream with the bot mentioned by its id.
DeniedPrivateMessages ==
    {[sender_email |-> "mallory@example.com", type |-> "private", mentioned |-> FALSE,
      content |-> c, display_recipient |-> {ZULIP_EMAIL, "mallory@example.com"},
      subject |-> ""] : c \in ShortContents}

DeniedStreamMessages ==
    {[sender_email |-> "mallory@example.com", type |-> "stream", mentioned |-> TRUE,
      content |-> c, display_recipient |-> "ops", subject |-> "deploys"] :
        c \in ShortContents}

AiInit ==
    /\ ReceivingInit
    /\ HandlerInit
    /\ audit = AuditOff
    /\ \/ RLInitWith(GlobalRequestsPerMinute, GlobalBurstSize, {1}, FALSE)
       \/ RLAfterBurst

\* Where the main thread lets time pass: in the time.sleep(0.1) of acquire and in the
\* call of the Claude API.
MainBlocked ==
    \/ hm.pc = "ai_api"
    \/ thr[1].pc = "sleep" /\ thr[1].nap > 0

\* The main thread is not scheduled between a refused check of the bucket and the
\* next test of the timeout (rate_limiter.py, from line 100 or 119 to line 104) until
\* the deadline of its acquire has passed: all the ticks up to it pass at once.
Stall(c) ==
    /\ thr[c].pc = "loop"
    /\ thr[c].remaining > 0
    /\ ~recording
    /\ LET k == thr[c].remaining
       IN  /\ since_refill' = Min(since_refill + k, SatTicks)
           /\ thr' = [d \in Callers |->
                        IF thr[d].pc = "idle" THEN thr[d]
                        ELSE [thr[d] EXCEPT !.remaining = Max(thr[d].remaining - k, 0),
                                            !.nap = Max(thr[d].nap - k, 0)]]
           /\ audit' = IF audit.on THEN [audit EXCEPT !.elapsed = @ + k] ELSE audit
           /\ ai' = [ai EXCEPT
                       !.timer_left = IF ai.timer = "waiting" THEN Max(@ - k, 0) ELSE @,
                       !.since_begin = IF InHandleAi THEN Min(@ + k, TimerTicks) ELSE @]
    /\ UNCHANGED <<requests_per_minute, burst_size, tokens, queue, total_requests,
                   total_queued, total_rejected, last, calls, recording, hist>>
    /\ UNCHANGED <<supvars, hm>>

\* One message from its arrival on: the main thread in handle_message and handle_ai,
\* the limiter, and the timer thread.  The clock moves while the main thread is
\* blocked; its other steps take no time.
AiNext ==
    \/ hm.pc = "idle" /\ \E m \in AiMessages : Receive(m)
    \/ hm.pc = "idle" /\ \E m \in AiGroupMessages \cup AnsweredPrivateMessages
                                 \cup DeniedPrivateMessages
                                 \cup MalformedPrivateMessages : Receive(m)
    \/ hm.pc = "idle" /\ \E m \in AnsweredStreamMessages \cup DeniedStreamMessages
                                 \cup MalformedStreamMessages : Receive(m)
    \/ \E outcome \in {Returns} \cup Raisable : RunCommand(outcome)
    \/ StatusCommand
    \/ \E result \in SendResults : CriticalSend(result)
    \/ Stall(1)
    \/ \E ready \in BOOLEAN : AiPrecheck(ready)
    \/ AiAcquireCall
    \/ AcquireEnter(1)
    \/ AcquireLoopCheck(1)
    \/ AcquirePoll(1)
    \/ AiAcquireReturns
    \/ AiArmTimer
    \/ \E raises \in BOOLEAN : AiApiDone(raises)
    \/ AiCancel
    \/ \E result \in SendResults : SendReply(result)
    \/ TimerWakes
    \/ TimerNotify
    \/ \E result \in SendResults : TimerSend(result)
    \/ MainBlocked /\ Tick

AiSpec == AiInit /\ [][AiNext]_vars

\* The messages of a run of several: an AI request, a command, a refused sender and a
\* message without sender_email in private conversations; a command and a message
\* that does not mention the bot on a stream.
SeqPrivateMessages ==
    {[sender_email |-> s, type |-> "private", mentioned |-> FALSE, content |-> c,
      display_recipient |-> {ZULIP_EMAIL, "alice@example.com"}, subject |-> ""] :
        s \in {"alice@example.com", Absent}, c \in {<<"ai", "hello">>, <<"help">>}}
    \cup {[sender_email |-> "mallory@example.com", type |-> "private",
           mentioned |-> FALSE, content |-> <<"help">>,
           display_recipient |-> {ZULIP_EMAIL, "mallory@example.com"}, subject |-> ""]}

SeqStreamMessages ==
    {[sender_email |-> "alice@example.com", type |-> "stream", mentioned |-> b,
      content |-> <<"@bot", "node", "hello">>, display_recipient |-> "ops",
      subject |-> "deploys"] : b \in BOOLEAN}

SeqInit == HmInit

\* handle_message called by call_on_each_message for one message after another, up to
\* MaxMessages of them, every call it makes returning before the clock moves.
SeqNext ==
    \/ hm.pc = "idle" /\ hm.n < MaxMessages /\ \E m \in SeqPrivateMessages : Receive(m)
    \/ hm.pc = "idle" /\ hm.n < MaxMessages /\ \E m \in SeqStreamMessages : Receive(m)
    \/ \E outcome \in {Returns, MissingKey("metadata")} : RunCommand(outcome)
    \/ \E ready \in BOOLEAN : AiPrecheck(ready)
    \/ AiAcquireCall
    \/ AcquireEnter(1)
    \/ AiAcquireReturns
    \/ AiArmTimer
    \/ \E raises \in BOOLEAN : AiApiDone(raises)
    \/ AiCancel
    \/ \E result \in SendResults : SendReply(result)
    \/ \E result \in SendResults : CriticalSend(result)
    \/ NextMessage

SeqSpec == SeqInit /\ [][SeqNext]_vars

(***************************************************************************)
(* Claims about the supervisor, checked under SupSpec.                     *)
(***************************************************************************)
ConsecutiveErrors == Len(consec_errors)

\* C1: after max_consecutive_failures consecutive receive-loop errors with no
\* success in between the process has exited with status 1; after fewer it has not
\* exited for that reason; and a success puts the failure counter back to zero.
C1_ExitsAtFailureCeiling ==
    /\ ConsecutiveErrors >= max_consecutive_failures => exit_status = "exit1"
    /\ (exit_status = "exit1" /\ loop_entered)
           => ConsecutiveErrors >= max_consecutive_failures
    /\ (pc = "receiving" /\ ConsecutiveErrors = 0) => failure_count = 0

\* C2: once a KeyboardInterrupt has been delivered, in whatever state of the
\* supervisor, the process has exited with status 0.
C2_ShutdownExitsZero == shutdown => exit_status = "exit0"

\* C3: while the supervisor sleeps after the k-th consecutive connectivity error
\* (k below the ceiling), the sleep lasts min(5 * 2^(k-1), 60) seconds, and never
\* more than 60.
C3_BackoffDoubles ==
    (/\ pc = "backoff_sleep"
     /\ ConsecutiveErrors < max_consecutive_failures
     /\ \A i \in 1..ConsecutiveErrors : consec_errors[i] = "ConnectionError")
        => /\ sleep_for = Backoff(ConsecutiveErrors)
           /\ sleep_for <= backoff_cap

\* C4: at startup the handshake is attempted at most max_retries times, the sleep
\* between two attempts lasts retry_delay seconds and none follows the last attempt;
\* the process leaves startup only by a successful attempt or, all attempts having
\* failed, by exiting with status 1 without ever entering the receive loop; the
\* receive loop is entered only after an attempt has succeeded.
C4_StartupRetries ==
    /\ InInitialize => attempt \in 1..max_retries
    /\ (InInitialize /\ ipc = "sleep") => (sleep_for = retry_delay /\ attempt < max_retries)
    /\ (handles = 0 /\ exit_status = "running") => (pc = "startup" /\ ~loop_entered)
    /\ (handles = 0 /\ exit_status = "exit1")
           => (attempt = max_retries /\ sleep_for = 0 /\ ~loop_entered)
    /\ (handles = 0 /\ pc = "exited") => exit_status \in {"exit1", "uncaught_KeyboardInterrupt"}
    /\ loop_entered => handles >= 1
    /\ pc = "receiving" => (client >= 1 /\ loop_client = client)

\* Every startup attempt failed and the process has exited.
C4_Witness ==
    /\ handles = 0
    /\ exit_status = "exit1"
    /\ attempt = max_retries
    /\ ~loop_entered

(***************************************************************************)
(* Claims about the rate limiter.                                          *)
(***************************************************************************)
\* What a refill at this instant leaves in the bucket, from the fields.
AvailableNow ==
    LET cap == burst_size * UnitsPerToken
        sum == tokens + since_refill * requests_per_minute
    IN  IF sum < cap THEN sum ELSE cap

\* C5: in every reachable state of the limiter, whatever acquire, try_acquire,
\* get_metrics and reset_metrics calls the callers have made, 0 <= tokens <= burst_size.
C5_TokensWithinBucket ==
    /\ 0 <= tokens
    /\ tokens <= burst_size * UnitsPerToken

\* The bucket has been drained below one token and a caller is queued in acquire.
C5_Witness ==
    /\ tokens < UnitsPerToken
    /\ total_requests >= 1
    /\ Waiting # {}

\* Ticks that refill exactly one token, when 60/requests_per_minute seconds are whole ticks.
TicksPerToken == UnitsPerToken \div requests_per_minute

WholeTicksPerToken == TicksPerToken * requests_per_minute = UnitsPerToken

Repeat(e, n) == [i \in 1..n |-> e]

\* burst_size successes and one failure with no time between them, then a wait of
\* 60/requests_per_minute seconds.
BurstThenWait == Repeat("T", burst_size) \o <<"F">> \o Repeat("t", TicksPerToken)

\* C6: from a fresh limiter and with no time elapsed, the first burst_size calls of
\* try_acquire succeed and every later one fails; when the caller then waits
\* 60/requests_per_minute seconds, the next try_acquire succeeds and the one after it,
\* with no further wait, fails.
C6_BurstThenOneMore ==
    /\ \A i \in 1..Len(hist) :
          (\A j \in 1..i : hist[j] # "t")
              => hist[i] = (IF i <= burst_size THEN "T" ELSE "F")
    /\ WholeTicksPerToken =>
          LET n == Len(BurstThenWait)
          IN  /\ (/\ Len(hist) >= n + 1
                  /\ SubSeq(hist, 1, n) = BurstThenWait
                  /\ hist[n + 1] # "t") => hist[n + 1] = "T"
              /\ (/\ Len(hist) >= n + 2
                  /\ SubSeq(hist, 1, n + 1) = BurstThenWait \o <<"T">>
                  /\ hist[n + 2] # "t") => hist[n + 2] = "F"

\* The whole scenario has run: burst, failure, wait, one success, one failure.
C6_Witness ==
    /\ WholeTicksPerToken
    /\ hist = BurstThenWait \o <<"T", "F">>

\* C7: the number of callers waiting inside acquire never exceeds queue_max_size.
C7_WaitersBounded == Cardinality(Waiting) <= queue_max_size

\* C8: a caller that passes the admission check of acquire while queue_max_size
\* callers are already waiting returns false at once, total_rejected grows by one and
\* tokens, total_requests and total_queued do not change.
C8_FullQueueRejects ==
    [][\A c \in Callers :
          (/\ thr[c].pc = "start"
           /\ thr'[c].pc # "start"
           /\ Cardinality(Waiting) >= queue_max_size)
              => /\ thr'[c].pc = "idle"
                 /\ last' = Returned(c, "acquire", FALSE)
                 /\ total_rejected' = total_rejected + 1
                 /\ UNCHANGED <<tokens, total_requests, total_queued>>]_vars

\* A step that is one call of try_acquire.
TryStep ==
    /\ calls' = calls + 1
    /\ thr' = thr
    /\ last'.op = "try_acquire"

\* C9: a call of try_acquire returns in its own step, true exactly when the refill
\* leaves at least one token; on true tokens is the refilled count less one token and
\* total_requests grows by one; on false tokens is the refilled count, not decremented,
\* and no counter changes.
C9_TryAcquire ==
    [][TryStep =>
          /\ thr'[last'.caller].pc = "idle"
          /\ last'.result = (AvailableNow >= UnitsPerToken)
          /\ IF AvailableNow >= UnitsPerToken
             THEN /\ tokens' = AvailableNow - UnitsPerToken
                  /\ total_requests' = total_requests + 1
             ELSE /\ tokens' = AvailableNow
                  /\ total_requests' = total_requests
          /\ UNCHANGED <<total_queued, total_rejected>>]_vars

\* try_acquire was refused although part of a token is in the bucket and earlier
\* requests were granted.
C9_Witness ==
    /\ last.op = "try_acquire"
    /\ ~last.result
    /\ tokens > 0
    /\ total_requests >= 1

\* Caller c's call of acquire returns in this step.
AcquireReturns(c) == thr[c].pc # "idle" /\ thr'[c].pc = "idle"

\* C10: every call of acquire returns.  It returns true only in a step in which it
\* takes exactly one token from the refilled bucket and adds one to total_requests; it
\* returns false only at the top of its loop once its timeout has elapsed, changing
\* none of tokens, total_requests and total_rejected; and no other step of the call
\* takes a token or changes total_requests or total_rejected.
C10_AcquireStep(c) ==
    /\ AcquireReturns(c) => last' = Returned(c, "acquire", last'.result)
    /\ (AcquireReturns(c) /\ last'.result)
          => /\ AvailableNow >= UnitsPerToken
             /\ tokens' = AvailableNow - UnitsPerToken
             /\ total_requests' = total_requests + 1
             /\ total_rejected' = total_rejected
    /\ (AcquireReturns(c) /\ ~last'.result)
          => /\ thr[c].pc = "loop"
             /\ thr[c].remaining = 0
             /\ UNCHANGED <<tokens, total_requests, total_rejected>>
    /\ (thr'[c].pc # thr[c].pc /\ ~(AcquireReturns(c) /\ last'.result))
          => /\ tokens' >= tokens
             /\ total_requests' = total_requests
             /\ total_rejected' = total_rejected

C10_AcquireReturns ==
    /\ [][\A c \in Callers : C10_AcquireStep(c)]_vars
    /\ \A c \in 1..NumCallers : (thr[c].pc # "idle") ~> (thr[c].pc = "idle")

\* A call of acquire has timed out while another caller is still queued.
C10_Witness ==
    /\ last.op = "acquire"
    /\ ~last.result
    /\ total_queued >= 1
    /\ Waiting # {}

\* C11: whatever the interleaving of the callers of acquire and try_acquire, the
\* tokens granted so far and the tokens left in the bucket are together no more than
\* the burst_size tokens the bucket started with and the tokens the elapsed time
\* refills, so no token is granted twice and the grants never exceed burst_size plus
\* the refill of the elapsed time.
C11_GrantsWithinRefill ==
    LET supply == burst_size * UnitsPerToken + audit.elapsed * requests_per_minute
    IN  /\ audit.granted * UnitsPerToken + tokens <= supply
        /\ audit.granted * UnitsPerToken <= supply

\* More than burst_size tokens have been granted, the last to a caller that had
\* waited, while another caller is still waiting.
C11_Witness ==
    /\ audit.granted > burst_size
    /\ last.op = "acquire"
    /\ last.result
    /\ total_queued >= 2
    /\ Waiting # {}

Counters == <<total_requests, total_queued, total_rejected>>

\* C12: of the values get_metrics has returned since the last acquire or try_acquire
\* step, none is less than the one before it and none is more than burst_size; and
\* a call of get_metrics changes no counter.
C12_MetricsMonotone ==
    /\ [](\A i \in 1..Len(audit.seen) :
             /\ audit.seen[i] <= burst_size * HundredthsPerToken
             /\ i > 1 => audit.seen[i - 1] <= audit.seen[i])
    /\ [][Len(audit'.seen) > Len(audit.seen) => UNCHANGED Counters]_vars

\* get_metrics was called twice with time between the calls, and the second call
\* returned more than the first.
C12_Witness ==
    /\ Len(audit.seen) = 2
    /\ audit.seen[1] < audit.seen[2]
    /\ total_requests >= 1

(***************************************************************************)
(* Claims about the AI dispatch, checked under AiSpec.                     *)
(***************************************************************************)
ProcessingText == "Processing your request"

\* The positions in hm.outbox of the 'still processing' notifications.
Notifications == {i \in 1..Len(hm.outbox) : hm.outbox[i].content = ProcessingText}

\* handle_ai has returned to handle_message.
HandlerReturned(at) == at \in {"reply", "done"}

\* C13: no 'still processing' notification is sent once handle_ai has returned, and
\* so none follows the final reply: whatever the interleaving of the timer thread
\* and the main thread, either the timer was cancelled or it fired before the return.
C13_NoNotificationAfterReturn ==
    /\ \A i \in Notifications : ~HandlerReturned(hm.outbox[i].during)
    /\ \A i \in Notifications : \A j \in 1..Len(hm.outbox) :
          (j < i) => hm.outbox[j].content = ProcessingText

\* C14: for one AI dispatch at most one 'still processing' notification is sent, and
\* it is sent by the run of notify_processing that set processing_notified.
C14_AtMostOneNotification ==
    /\ Cardinality(Notifications) <= 1
    /\ Notifications # {} => ai.processing_notified

\* The API call outlasted the timer: the notification went out, then the reply.
C14_Witness ==
    /\ hm.pc = "done"
    /\ ai.timer = "done"
    /\ Len(hm.outbox) = 2
    /\ Notifications = {1}

\* The timer has reached its time: it is no longer waiting for it.
TimerDue ==
    \/ ai.timer \in {"running", "sending", "done"}
    \/ ai.timer = "waiting" /\ ai.timer_left = 0

\* C15: while an AI dispatch with a callback waits for a rate-limit token or for the
\* Claude API, its timer has been armed; and once 5 seconds have passed since the
\* dispatch began, the timer has reached its time.
C15_TimerArmedAtDispatch ==
    (/\ ai.callback
     /\ hm.pc \in {"ai_acquire", "ai_api"})
        => /\ ai.timer # "none"
           /\ ai.since_begin >= TimerTicks => TimerDue

(***************************************************************************)
(* Claims about handle_message, checked under HmSpec.                      *)
(***************************************************************************)
\* The bot is mentioned in m: by its id or by one of the two textual markers.
Mentioned(m) ==
    \/ m.mentioned
    \/ \E i \in 1..Len(m.content) : m.content[i] \in {"@**Ritsuko**", "@_**Ritsuko**"}

NonBotParticipants(m) == m.display_recipient \ {ZULIP_EMAIL}

\* The message carries its sender and was not sent by the bot.
SentByAnother(m) == m.sender_email \notin {ZULIP_EMAIL, Absent}

Responded == hm.outbox # <<>>

NothingInvoked ==
    /\ ~hm.parsed
    /\ hm.handler = "none"
    /\ calls = 0

\* C16: for a message whose sender is the bot itself, nothing is sent and neither
\* parse_command, a handler nor the rate limiter is invoked, whatever its type,
\* mentions and content.
C16_OwnMessagesIgnored ==
    hm.message.sender_email = ZULIP_EMAIL
        => /\ hm.outbox = <<>>
           /\ NothingInvoked
           /\ hm.pc \in {"idle", "done"}

\* The bot's own message, on a stream and mentioning the bot, has been handled.
C16_Witness ==
    /\ hm.pc = "done"
    /\ hm.message.sender_email = ZULIP_EMAIL
    /\ hm.message.type = "stream"
    /\ Mentioned(hm.message)

C18_OneOnOneAnswered ==
    (/\ hm.message.type = "private"
     /\ SentByAnother(hm.message)
     /\ Cardinality(NonBotParticipants(hm.message)) = 1
     /\ hm.pc = "done")
        => Responded

\* A 1-on-1 message that does not mention the bot was answered.
C18_Witness ==
    /\ hm.pc = "done"
    /\ hm.message.type = "private"
    /\ hm.message.display_recipient = {ZULIP_EMAIL, "alice@example.com"}
    /\ hm.message.sender_email = "alice@example.com"
    /\ ~Mentioned(hm.message)
    /\ Responded

\* C19: for a private message of a sender other than the bot with two or more non-bot
\* participants, nothing is ever sent when the bot is not mentioned, and when
\* handle_message is done something was sent exactly when the bot is mentioned.
C19_GroupNeedsMention ==
    (/\ hm.message.type = "private"
     /\ SentByAnother(hm.message)
     /\ Cardinality(NonBotParticipants(hm.message)) >= 2)
        => /\ ~Mentioned(hm.message) => hm.outbox = <<>>
           /\ hm.pc = "done" => (Responded <=> Mentioned(hm.message))

\* A group conversation: one message that mentions the bot was answered.
C19_Witness ==
    /\ hm.pc = "done"
    /\ hm.message.type = "private"
    /\ Cardinality(NonBotParticipants(hm.message)) >= 2
    /\ Mentioned(hm.message)
    /\ Responded

\* The message passes intake: 1-on-1, or mentioning the bot on a stream or in a
\* private conversation.
PassesIntake(m) ==
    /\ SentByAnother(m)
    /\ \/ m.type = "stream" /\ Mentioned(m)
       \/ m.type = "private" /\ Cardinality(NonBotParticipants(m)) = 1
       \/ m.type = "private" /\ Mentioned(m)

\* C20: for a message that passes intake and whose sender is not in
\* authorized_users, neither parse_command, a handler nor the rate limiter is ever
\* invoked, and when handle_message is done exactly one message was sent, the denial.
C20_UnauthorizedDenied ==
    (PassesIntake(hm.message) /\ hm.message.sender_email \notin authorized_users)
        => /\ NothingInvoked
           /\ Len(hm.outbox) <= 1
           /\ hm.pc = "done" =>
                 (Len(hm.outbox) = 1 /\ hm.outbox[1].content = DenialText)

\* An unauthorized sender asked for the AI on a stream, mentioning the bot, and was
\* refused.
C20_Witness ==
    /\ hm.pc = "done"
    /\ hm.message.type = "stream"
    /\ hm.message.sender_email = "mallory@example.com"
    /\ Len(hm.message.content) >= 2
    /\ hm.message.content[2] = "ai"
    /\ Len(hm.outbox) = 1

(***************************************************************************)
(* Claims about failures in handle_message, checked under HmSpec.          *)
(***************************************************************************)
\* C21: for a message that lacks sender_email, handle_message raises no exception and
\* gives nothing to send_message.
C21_NoSenderNothingSent ==
    hm.message.sender_email = Absent
        => /\ hm.pc # "propagated"
           /\ hm.outbox = <<>>

(***************************************************************************)
(* Claims about the replies of handle_message, checked under AiSpec.       *)
(***************************************************************************)
\* The outbound message o goes to the conversation message m came from.
ToConversationOf(o, m) ==
    /\ o.type = m.type
    /\ IF m.type = "stream"
       THEN o.to = m.display_recipient /\ o.subject = m.subject
       ELSE o.to = m.display_recipient \ {ZULIP_EMAIL}

\* C22: once handle_message has returned for a message that passed intake, at least
\* one message was given to send_message for the conversation it came from, also when
\* the handler raised or the rate limiter refused the request.
C22_IntakeAlwaysAnswered ==
    (PassesIntake(hm.message) /\ hm.pc = "done")
        => \E i \in 1..Len(hm.outbox) :
              /\ hm.outbox[i].n = hm.n
              /\ hm.outbox[i].content # ProcessingText
              /\ ToConversationOf(hm.outbox[i], hm.message)

\* The rate limiter refused an AI request on a stream, and the throttling text went
\* to the stream.
C22_Witness ==
    /\ hm.pc = "done"
    /\ hm.message.type = "stream"
    /\ PassesIntake(hm.message)
    /\ Len(hm.outbox) = 1
    /\ hm.outbox[1].content = ThrottleText
    /\ hm.outbox[1].to = "ops"

\* C23: handle_message never raises to call_on_each_message, whatever the message and
\* whatever fails in it, so that the receive loop of main goes on with no failure
\* counted.
C23_NothingPropagates ==
    /\ hm.pc # "propagated"
    /\ pc = "receiving"
    /\ failure_count = 0
    /\ consec_errors = <<>>

\* A message without sender_email raised KeyError in handle_message, whose handler
\* then failed to send its notification, and handle_message returned.
C23_Witness ==
    /\ hm.pc = "done"
    /\ hm.message.sender_email = Absent
    /\ Len(hm.outbox) = 1
    /\ hm.outbox[1].content = CriticalText
    /\ ~hm.outbox[1].delivered

(***************************************************************************)
(* Claims about parse_command and execute_command, checked under HmSpec.   *)
(***************************************************************************)
\* The words of the Vocabulary that have the shape of a mention marker, @**...** or
\* @_**...**.
MarkerShapedWords ==
    {"@**Ritsuko**", "@_**Ritsuko**", "@**ritsuko**", "@_**ritsuko**", "@**Bot**",
     "@**bot**"}

\* The words of the Vocabulary in lower case.
LowerCased(w) ==
    CASE w = "@**Ritsuko**" -> "@**ritsuko**"
      [] w = "@_**Ritsuko**" -> "@_**ritsuko**"
      [] w = "@**Bot**" -> "@**bot**"
      [] w = "@**Bot" -> "@**bot"
      [] w = "Help" -> "help"
      [] w = "Me" -> "me"
      [] OTHER -> w

\* The tokens discarded before the command: the first one of a stream message, and
\* the first one of a private message when it has the shape of a mention marker.
Discarded(m) ==
    IF m.type = "stream" THEN 1
    ELSE IF m.content # <<>> /\ m.content[1] \in MarkerShapedWords THEN 1
    ELSE 0

\* C24: what parse_command gave handle_message for its message: no command and no
\* arguments when no token is left after the discarded ones, otherwise the next token
\* in lower case as the command and the tokens after it, unchanged and in order, as
\* the arguments.
C24_ParseCommand ==
    hm.parsed =>
        LET words == hm.message.content
            k == Discarded(hm.message)
        IN  IF Len(words) <= k
            THEN hm.command = "" /\ hm.args = <<>>
            ELSE /\ hm.command = LowerCased(words[k + 1])
                 /\ hm.args = SubSeq(words, k + 2, Len(words))

\* Private "@**Bot** Help Me" was parsed as ("help", ["Me"]).
C24_Witness ==
    /\ hm.parsed
    /\ hm.message.type = "private"
    /\ hm.message.content = <<"@**Bot**", "Help", "Me">>
    /\ hm.command = "help"
    /\ hm.args = <<"Me">>

\* C25: when handle_message is done with "echo hello world" from an authorized sender
\* in a 1-on-1 conversation, exactly one message was sent and its text is
\* "hello world".
C25_EchoReplies ==
    (/\ hm.pc = "done"
     /\ hm.message.type = "private"
     /\ hm.message.sender_email \in authorized_users
     /\ Cardinality(NonBotParticipants(hm.message)) = 1
     /\ hm.message.content = <<"echo", "hello", "world">>)
        => /\ Len(hm.outbox) = 1
           /\ hm.outbox[1].content = "hello world"
           /\ hm.outbox[1].detail = ""

\* The commands execute_command has an entry for.
TableEntries ==
    {"help", "ai", "mcp", "node", "nautobot", "cluster", "clusters", "status",
     "version"}

\* handle_message has the response of the command of its message.
CommandAnswered ==
    /\ hm.parsed
    /\ hm.pc \in {"reply", "done"}

\* C26: a command that is none of the entries of execute_command's table is answered
\* with the 'Unknown command' text naming it, and a message with no command with the
\* 'No command specified' text; for neither is a collaborator of a handler or the rate
\* limiter called.
C26_UnmatchedCommands ==
    (CommandAnswered /\ hm.command \notin TableEntries)
        => /\ IF hm.command = ""
              THEN hm.response = NoCommandText /\ hm.detail = ""
              ELSE hm.response = UnknownText /\ hm.detail = hm.command
           /\ hm.collaborators = {}
           /\ calls = 0
           /\ tokens = GlobalBurstSize * UnitsPerToken

\* "hello" in a 1-on-1 conversation was answered with the 'Unknown command' text
\* naming it.
C26_Witness ==
    /\ hm.pc = "done"
    /\ hm.message.content = <<"hello">>
    /\ hm.command = "hello"
    /\ Len(hm.outbox) = 1
    /\ hm.outbox[1].content = UnknownText
    /\ hm.outbox[1].detail = "hello"

\* C27: when acquire has refused an AI request, handle_ai has returned the throttling
\* text: it is the one message sent for the request, the Claude API was not called,
\* no timer was started and no notification sent, and acquire was called once.
C27_RefusedRequest ==
    hm.response = ThrottleText
        => /\ hm.pc \in {"reply", "done"}
           /\ "anthropic" \notin hm.collaborators
           /\ ai.timer = "none"
           /\ calls = 1
           /\ Notifications = {}
           /\ hm.pc = "done" =>
                 (Len(hm.outbox) = 1 /\ hm.outbox[1].content = ThrottleText)

\* acquire timed out for an AI request in a 1-on-1 conversation, and the throttling
\* text was sent.
C27_Witness ==
    /\ hm.pc = "done"
    /\ hm.message.type = "private"
    /\ hm.handler = "handle_ai"
    /\ total_queued = 1
    /\ total_requests = GlobalBurstSize
    /\ Len(hm.outbox) = 1
    /\ hm.outbox[1].content = ThrottleText

\* C28: every message given to send_message for a stream message goes to its stream
\* and its subject, and every one for a private message goes to its participants
\* without the bot: the reply, the 'still processing' notification and the
\* critical-error notification alike.
C28_RepliesAddressed ==
    \A i \in 1..Len(hm.outbox) :
        /\ ToConversationOf(hm.outbox[i], hm.message)
        /\ hm.outbox[i].type = "private" => ZULIP_EMAIL \notin hm.outbox[i].to

\* In a group conversation the notification and then the reply went to the two other
\* participants.
C28_Witness ==
    /\ hm.pc = "done"
    /\ hm.message.type = "private"
    /\ hm.message.display_recipient = People
    /\ Len(hm.outbox) = 2
    /\ hm.outbox[1].content = ProcessingText
    /\ hm.outbox[1].to = {"alice@example.com", "mallory@example.com"}
    /\ hm.outbox[2].content = "ai_text"
    /\ hm.outbox[2].to = {"alice@example.com", "mallory@example.com"}

(***************************************************************************)
(* Claims about failures of the handlers, checked under HmSpec.            *)
(***************************************************************************)
\* The text for a failure of each kind: a missing field, an invalid argument, a
\* timeout, a connectivity failure, and the generic one for any other.
TextFor(e) ==
    IF "KeyError" \in Bases(e.cls) THEN MissingFieldText
    ELSE IF "ValueError" \in Bases(e.cls) THEN FormatText
    ELSE IF "TimeoutError" \in Bases(e.cls) THEN TimeoutText
    ELSE IF "ConnectionError" \in Bases(e.cls) THEN ConnectionText
    ELSE UnexpectedText

\* C29: when the handler of an authorized sender's command has raised, the response
\* is the text for the kind of the failure, the generic text carries the description
\* of the failure, and when handle_message is done that text is the one message sent.
C29_FailureTexts ==
    (/\ hm.parsed
     /\ hm.exception # Returns
     /\ hm.pc \in {"reply", "done"})
        => /\ hm.response = TextFor(hm.exception)
           /\ hm.response = UnexpectedText => hm.detail = hm.exception.msg
           /\ hm.pc = "done" =>
                 /\ Len(hm.outbox) = 1
                 /\ hm.outbox[1].content = hm.response
                 /\ hm.outbox[1].detail = hm.detail

\* handle_node raised a TimeoutError, and the timeout text was sent.
C29_Witness ==
    /\ hm.pc = "done"
    /\ hm.handler = "handle_node"
    /\ hm.exception.cls = "TimeoutError"
    /\ Len(hm.outbox) = 1
    /\ hm.outbox[1].content = TimeoutText

(***************************************************************************)
(* Claims about the order of the replies, checked under SeqSpec.           *)
(***************************************************************************)
\* The final messages sent: the replies and critical-error notifications.
FinalMessages == {i \in 1..Len(hm.outbox) : hm.outbox[i].content # ProcessingText}

\* C30: the final messages are in the order of arrival of their messages, one at most
\* for a message, each sent by handle_message after the command of its message was
\* dispatched; handle_message is called with the next message only once it has
\* returned for the one before, having sent the reply of that message if it passed
\* intake.
C30_RepliesInOrder ==
    /\ [](\A i, j \in FinalMessages : i < j => hm.outbox[i].n < hm.outbox[j].n)
    /\ [](\A i \in FinalMessages : /\ hm.outbox[i].during \in {"reply", "critical"}
                                   /\ hm.outbox[i].n <= hm.n)
    /\ [][hm'.n # hm.n => (hm.pc = "idle" /\ hm'.n = hm.n + 1)]_vars
    /\ [][(hm.pc # "idle" /\ hm'.pc = "idle")
            => /\ hm.pc = "done"
               /\ PassesIntake(hm.message)
                    => \E i \in FinalMessages : hm.outbox[i].n = hm.n]_vars

\* Three messages were answered one after the other: an AI request, then a refused
\* sender, then a command on a stream.
C30_Witness ==
    /\ hm.pc = "done"
    /\ hm.n = 3
    /\ Len(hm.outbox) = 3
    /\ hm.outbox[1].content = "ai_text"
    /\ hm.outbox[2].content = DenialText
    /\ hm.outbox[3].type = "stream"
    /\ hm.outbox[3].n = 3

(***************************************************************************)
(* Claims about messages of other types, checked under HmSpec.             *)
(***************************************************************************)
\* C31: for a message whose type is neither `stream` nor `private`, mentioning the
\* bot or not, nothing is ever sent, neither parse_command, a handler nor the rate
\* limiter is invoked, and (for a message that carries its sender) handle_message
\* goes from receiving it to done with no step between: the authorization check,
\* which would leave the denial to send, is never reached.
C31_OtherTypesIgnored ==
    (hm.pc # "idle" /\ hm.message.type \notin {"stream", "private"})
        => /\ hm.outbox = <<>>
           /\ NothingInvoked
           /\ hm.response = ""
           /\ SentByAnother(hm.message) => hm.pc = "done"

\* A message of another type that mentions the bot, of a sender who is not
\* authorized, has been handled.
C31_Witness ==
    /\ hm.pc = "done"
    /\ hm.message.type = "unknown"
    /\ Mentioned(hm.message)
    /\ SentByAnother(hm.message)
    /\ hm.message.sender_email \notin authorized_users

(***************************************************************************)
(* Claims about the supervisor after a receive-loop error.                 *)
(***************************************************************************)
\* The receive loop has raised since the last successful handshake: `client` and
\* BOT_PROFILE are still those of the connection whose loop raised last.
FailedSinceHandshake == consec_errors # <<>> /\ loop_entered

\* C32: the receive loop runs only on a handle and an identity of a handshake that
\* succeeded after the last receive-loop error, never on the handle whose loop has
\* just raised, and it runs on one handle at a time.
C32_ResumesOnFreshHandle ==
    pc = "receiving"
        => /\ ~FailedSinceHandshake
           /\ loop_client = client
           /\ BOT_PROFILE = client

\* C33: when initialize_zulip_client, called after a receive-loop error, fails at its
\* last attempt, the process goes on running at the top of the while loop, and the
\* failure counter and the errors counted are those of before that failure.
C33_FailedReconnectNotCounted ==
    [][(/\ pc \in {"reconnect", "reinit"}
        /\ ipc = "attempt"
        /\ pc' \notin {"reconnect", "reinit"}
        /\ client' = client
        /\ ~shutdown')
           => /\ attempt = max_retries
              /\ pc' = "loop_top"
              /\ exit_status' = "running"
              /\ failure_count' = failure_count
              /\ consec_errors' = consec_errors]_vars

\* Every attempt to connect again after a receive-loop error has failed, and the
\* supervisor is at the top of the while loop with that one error counted.
C33_Witness ==
    /\ pc = "loop_top"
    /\ exit_status = "running"
    /\ FailedSinceHandshake
    /\ attempt = max_retries
    /\ failure_count = 1

\* The supervisor is in an except clause of main after a receive-loop error that did
\* not end the process: in its sleep, or in its call of initialize_zulip_client.
Recovering == pc \in {"backoff_sleep", "recover_sleep", "reconnect", "reinit"}

\* C34: when every sleep and every attempt to connect terminates, a supervisor that
\* is recovering from a receive-loop error reaches the blocking receive loop again,
\* unless a KeyboardInterrupt is delivered first.
C34_ReturnsToActive == Recovering ~> (pc = "receiving" \/ shutdown)

\* The receive loop runs again on the handle of a second handshake.
C34_Witness ==
    /\ pc = "receiving"
    /\ handles >= 2
    /\ loop_client = handles
    /\ ~shutdown

GrantedAfterWait == {c \in Callers : thr[c].pc = "sleep" /\ thr'[c].pc = "idle"}
BeginsToWait == {c \in Callers : thr[c].pc = "start" /\ thr'[c].pc = "loop"}

\* C36 as stated: total_queued counts, since the last reset_metrics, the calls of
\* acquire that had to wait and were then granted a token: reset_metrics puts it to
\* zero and every other step adds the number of waiters it grants.
C36_QueuedAndGranted ==
    [][IF ResetMetrics THEN total_queued' = 0
       ELSE total_queued' = total_queued + Cardinality(GrantedAfterWait)]_vars

\* C36 as amended: total_queued counts, since the last reset_metrics, the calls of
\* acquire that had to wait, whether they were later granted a token or timed out:
\* reset_metrics puts it to zero and every other step adds the number of callers
\* that begin to wait.
C36_QueuedWaiters ==
    [][IF ResetMetrics THEN total_queued' = 0
       ELSE total_queued' = total_queued + Cardinality(BeginsToWait)]_vars

\* Nobody is waiting, the last call of acquire timed out, and more calls were counted
\* as queued than were granted.
C36_Witness ==
    /\ Waiting = {}
    /\ last.op = "acquire"
    /\ ~last.result
    /\ total_queued > total_requests

(***************************************************************************)
(* Claims about the early returns of handle_ai, checked under HmSpec.      *)
(***************************************************************************)
\* handle_ai has returned one of the texts of its lines 104-129.
EarlyReturn ==
    /\ hm.handler = "handle_ai"
    /\ hm.response \in {"AI not available", "Usage", "Invalid prompt"}

\* C37: when handle_ai returns because the anthropic package or the API key is
\* missing, because there is no argument or because the prompt fails validation,
\* handle_message is left to send that text, acquire was not called for the message
\* and no call of the limiter is under way, and no step of the handling of such a
\* message changes the tokens, the refill time or a counter of the limiter.
C37_EarlyReturnsLeaveLimiter ==
    /\ [](EarlyReturn
            => /\ hm.pc \in {"reply", "done"}
               /\ "rate_limiter" \notin hm.collaborators
               /\ calls = 0
               /\ thr[1] = IdleThread
               /\ last = NoCall)
    /\ [][EarlyReturn'
            => UNCHANGED <<tokens, since_refill, total_requests, total_queued,
                           total_rejected, queue, calls>>]_vars

\* A prompt with a null byte was refused by validate_ai_prompt and the text sent.
C37_Witness ==
    /\ hm.pc = "done"
    /\ hm.handler = "handle_ai"
    /\ hm.response = "Invalid prompt"
    /\ hm.detail = "Prompt contains invalid null bytes"
    /\ Len(hm.outbox) = 1
    /\ tokens = max_tokens

(***************************************************************************)
(* Claims about the lazy refill, checked under MetricsSpec.                *)
(***************************************************************************)
\* C38: what a refill would leave in the bucket is not changed by a call of
\* get_metrics nor by a call of try_acquire that fails, and a tick of the clock
\* raises it by the refill of one tick up to burst_size, whatever part of it is
\* already in `tokens` and whatever part is time not yet refilled: so after a time T
\* with no grant it is min(burst_size, start + T * refill_rate), however often the
\* bucket was looked at in between.
C38_RefillPathIndependent ==
    [][/\ GetMetrics => AvailableNow' = AvailableNow
       /\ (\E c \in Callers : TryAcquire(c) /\ ~Granted) => AvailableNow' = AvailableNow
       /\ Tick => AvailableNow' = Min(max_tokens, AvailableNow + requests_per_minute)]_vars

\* A try_acquire that failed has just refilled a bucket that holds a fraction of a
\* token, below burst_size.
C38_Witness ==
    /\ last.op = "try_acquire"
    /\ ~last.result
    /\ since_refill = 0
    /\ tokens % UnitsPerToken # 0
    /\ tokens < max_tokens

(***************************************************************************)
(* Claims about the final message of a message, checked under HmSpec.      *)
(***************************************************************************)
\* The final messages given to send_message for message k, delivered or not.
FinalFor(k) == {i \in FinalMessages : hm.outbox[i].n = k}

\* C39: for every message, at most one final message is given to send_message: it
\* is the reply, sent from the reply position, or the critical-error notification,
\* sent from the handler of the outer try, never one of each and never two
\* notifications.
C39_OneFinalMessage ==
    \A k \in 0..hm.n :
        /\ Cardinality(FinalFor(k)) <= 1
        /\ \A i \in FinalFor(k) :
              /\ hm.outbox[i].during \in {"reply", "critical"}
              /\ hm.outbox[i].during = "critical" <=> hm.outbox[i].content = CriticalText
        /\ ~\E i, j \in FinalFor(k) :
              hm.outbox[i].during = "reply" /\ hm.outbox[j].during = "critical"

\* The reply of a command was given to send_message and was not delivered: nothing
\* else was sent and handle_message has returned.
C39_Witness ==
    /\ hm.pc = "done"
    /\ hm.parsed
    /\ Len(hm.outbox) = 1
    /\ hm.outbox[1].during = "reply"
    /\ ~hm.outbox[1].delivered
    /\ hm.outbox[1].n = hm.n

(***************************************************************************)
(* Claims about private conversations without another participant,        *)
(* checked under HmSpec.                                                   *)
(***************************************************************************)
\* C40: for a private message of a sender other than the bot whose participants are
\* nobody or the bot alone, nothing is ever sent and nothing invoked when the bot is
\* not mentioned; when handle_message is done, something was sent exactly when the
\* bot is mentioned; and whatever is sent is addressed to no recipient.
C40_NoOtherParticipant ==
    (/\ hm.message.type = "private"
     /\ SentByAnother(hm.message)
     /\ NonBotParticipants(hm.message) = {})
        => /\ ~Mentioned(hm.message) => (hm.outbox = <<>> /\ NothingInvoked)
           /\ hm.pc = "done" => (Responded <=> Mentioned(hm.message))
           /\ \A i \in 1..Len(hm.outbox) :
                 hm.outbox[i].type = "private" /\ hm.outbox[i].to = {}

\* An authorized sender's private message that lists the bot alone and mentions it
\* was answered with the result of a command, to no recipient.
C40_Witness ==
    /\ hm.pc = "done"
    /\ hm.message.type = "private"
    /\ hm.message.display_recipient = {ZULIP_EMAIL}
    /\ hm.message.sender_email \in authorized_users
    /\ Mentioned(hm.message)
    /\ hm.parsed
    /\ Len(hm.outbox) = 1
    /\ hm.outbox[1].to = {}

====
